---- MODULE Spec2Model ----
(***************************************************************************)
(* Model of the peer-to-peer electricity market of p2p/market and p2p/sim: *)
(* the price-time priority OrderBook (order_book.py), the call-auction     *)
(* batch matcher and its orchestrator (clearing.py) and the welfare        *)
(* metrics (metrics.py).                                                   *)
(*                                                                         *)
(* Units.  Prices are integers counting hundredths of a cent per kWh, so   *)
(* the default tick of 0.1 c/kWh is 10.  Quantities are integers counting  *)
(* twelfths of a kWh, so a feeder limit of L kW over a 5 minute step is an *)
(* energy budget of L quantity units.  An optional argument (None in the   *)
(* source) is a sequence of length 0 or 1.                                 *)
(***************************************************************************)
EXTENDS Integers, Sequences, FiniteSets, TLC

VARIABLES
    bids,             \* OrderBook.bids: resting buy orders, best first
    asks,             \* OrderBook.asks: resting sell orders, best first
    id_counter,       \* OrderBook._id_counter
    arrival_counter,  \* OrderBook._arrival_counter
    trades,           \* OrderBook._trades: the log drained by clear_trades
    replay,           \* a driver feeding a fixed list of orders to submit
    learner,          \* a NoRegretLearner: its arms, _counts and _values
    run,              \* the simulation run in progress, None outside a run
    last              \* the last call made: its name, arguments and outcome

vars ==
    <<bids, asks, id_counter, arrival_counter, trades, replay, learner, run,
      last>>

----------------------------------------------------------------------------
(* Bounds and input sets *)

MaxOrders == 3        \* order ids handed out by submit in one behaviour

TickCents == 10       \* OrderBook.tick_cents = 0.1

Sides == {"buy", "sell"}

AgentIds == {"a1"}

\* Prices given to submit/modify: one negative, two off the tick grid on
\* either side of one tick (16 -> 20, rounded up; 24 -> 20, rounded down) and
\* two on it.
RawPrices == {-10, 10, 16, 24, 30}

\* Quantities given to submit/modify: 0 is the non-positive case.
Qtys == {0, 1, 2}

None == <<>>

Some(x) == <<x>>

Opt(S) == {None} \cup {Some(x) : x \in S}

Min(a, b) == IF a <= b THEN a ELSE b

Max(a, b) == IF a >= b THEN a ELSE b

RECURSIVE SumQty(_)
SumQty(s) == IF s = <<>> THEN 0 ELSE Head(s).qty_kwh + SumQty(Tail(s))

----------------------------------------------------------------------------
(* Records *)

Order(id, price, qty, side, agent, seq) ==
    [order_id |-> id, price_cperkwh |-> price, qty_kwh |-> qty, side |-> side,
     agent_id |-> agent, arrival_seq |-> seq]

\* The fields of the Trade dataclass.
TradeFields ==
    {"price_cperkwh", "qty_kwh", "buy_agent", "sell_agent", "maker_order_id",
     "taker_order_id"}

\* The book as one value, for the operators below.
Book(b, a, idc, arc, tr) ==
    [bids |-> b, asks |-> a, id_counter |-> idc, arrival_counter |-> arc,
     trades |-> tr]

OB == Book(bids, asks, id_counter, arrival_counter, trades)

----------------------------------------------------------------------------
(* OrderBook internals *)

\* round(p / tick): Python rounds a half to the even neighbour.
round_ticks(p) ==
    LET k == p \div TickCents
        r == p % TickCents
    IN  IF 2 * r < TickCents THEN k
        ELSE IF 2 * r > TickCents THEN k + 1
        ELSE IF k % 2 = 0 THEN k ELSE k + 1

\* _normalize_price raises for p < 0 (price_raises), else snaps to the tick.
normalize_price_raw(p) == p

\* The test `p < 0` of _normalize_price.
price_raises(p) == p < 0

normalize_price(p) == round_ticks(p) * TickCents

\* The loop condition of _insert_sorted: the resting order o stays ahead of
\* the order being inserted.
stays_ahead_lifo(o, order, reverse) ==
    IF reverse THEN o.price_cperkwh > order.price_cperkwh
    ELSE o.price_cperkwh < order.price_cperkwh

stays_ahead(o, order, reverse) ==
    \/ (IF reverse THEN o.price_cperkwh > order.price_cperkwh
        ELSE o.price_cperkwh < order.price_cperkwh)
    \/ (o.price_cperkwh = order.price_cperkwh
        /\ o.arrival_seq < order.arrival_seq)

RECURSIVE scan_pos(_, _, _, _)
scan_pos(book, order, reverse, pos) ==
    IF pos < Len(book) /\ stays_ahead(book[pos + 1], order, reverse)
    THEN scan_pos(book, order, reverse, pos + 1)
    ELSE pos

insert_sorted_append(book, order, reverse) == Append(book, order)

insert_sorted(book, order, reverse) ==
    LET pos == scan_pos(book, order, reverse, 0)
    IN  SubSeq(book, 1, pos) \o <<order>> \o SubSeq(book, pos + 1, Len(book))

rest(ob, order) ==
    IF order.side = "buy"
    THEN [ob EXCEPT !.bids = insert_sorted(@, order, TRUE)]
    ELSE [ob EXCEPT !.asks = insert_sorted(@, order, FALSE)]

\* The price test of the two while loops of _match.
crosses_strict(incoming, maker) ==
    IF incoming.side = "buy"
    THEN incoming.price_cperkwh > maker.price_cperkwh
    ELSE incoming.price_cperkwh < maker.price_cperkwh

crosses(incoming, maker) ==
    IF incoming.side = "buy"
    THEN incoming.price_cperkwh >= maker.price_cperkwh
    ELSE incoming.price_cperkwh <= maker.price_cperkwh

\* The maker-price rule of _match.
trade_price_taker(incoming, maker) == incoming.price_cperkwh

trade_price(incoming, maker) == maker.price_cperkwh

\* The quantity of one fill of _match.
fill_qty_incoming(incoming, maker) == incoming.qty_kwh

fill_qty_maker(incoming, maker) == maker.qty_kwh

fill_qty(incoming, maker) == Min(incoming.qty_kwh, maker.qty_kwh)

\* One pass of _match's loop per call; the result is the book, the incoming
\* order with what is left of it, and the trades of this call.
RECURSIVE match(_, _, _)
match(ob, incoming, out) ==
    LET opp == IF incoming.side = "buy" THEN ob.asks ELSE ob.bids
    IN  IF incoming.qty_kwh > 0 /\ opp # <<>> /\ crosses(incoming, opp[1])
        THEN LET maker == opp[1]
                 qty == fill_qty(incoming, maker)
                 tr == [price_cperkwh |-> trade_price(incoming, maker),
                        qty_kwh |-> qty,
                        buy_agent |-> IF incoming.side = "buy"
                                      THEN incoming.agent_id ELSE maker.agent_id,
                        sell_agent |-> IF incoming.side = "buy"
                                       THEN maker.agent_id ELSE incoming.agent_id,
                        maker_order_id |-> maker.order_id,
                        taker_order_id |-> incoming.order_id]
                 maker2 == [maker EXCEPT !.qty_kwh = @ - qty]
                 opp2 == IF maker2.qty_kwh <= 0 THEN Tail(opp)
                         ELSE <<maker2>> \o Tail(opp)
                 ob1 == [ob EXCEPT !.trades = Append(@, tr)]
                 ob2 == IF incoming.side = "buy"
                        THEN [ob1 EXCEPT !.asks = opp2]
                        ELSE [ob1 EXCEPT !.bids = opp2]
             IN  match(ob2, [incoming EXCEPT !.qty_kwh = @ - qty],
                       Append(out, tr))
        ELSE [ob |-> ob, incoming |-> incoming, trades |-> out]

----------------------------------------------------------------------------
(* OrderBook public API, as functions of the book *)

\* The book a rejected submit leaves: both raises come before any assignment.
rejected_bumped(ob) ==
    [ob EXCEPT !.id_counter = @ + 1, !.arrival_counter = @ + 1]

rejected(ob) == ob

\* submit: validation, the counters, matching, then the residual rests.
submit_rest_always(ob, agent, side, price, qty) ==
    IF qty <= 0 \/ price_raises(price)
    THEN [ob |-> rejected(ob), raised |-> TRUE, order_id |-> 0,
          trades |-> <<>>]
    ELSE LET ob1 == [ob EXCEPT !.id_counter = @ + 1,
                               !.arrival_counter = @ + 1]
             incoming == Order(ob1.id_counter, normalize_price(price), qty,
                               side, agent, ob1.arrival_counter)
             m == match(ob1, incoming, <<>>)
         IN  [ob |-> rest(m.ob, m.incoming), raised |-> FALSE,
              order_id |-> incoming.order_id, trades |-> m.trades]

submit(ob, agent, side, price, qty) ==
    IF qty <= 0 \/ price_raises(price)
    THEN [ob |-> rejected(ob), raised |-> TRUE, order_id |-> 0,
          trades |-> <<>>]
    ELSE LET ob1 == [ob EXCEPT !.id_counter = @ + 1,
                               !.arrival_counter = @ + 1]
             incoming == Order(ob1.id_counter, normalize_price(price), qty,
                               side, agent, ob1.arrival_counter)
             m == match(ob1, incoming, <<>>)
             ob2 == IF m.incoming.qty_kwh > 0 THEN rest(m.ob, m.incoming)
                    ELSE m.ob
         IN  [ob |-> ob2, raised |-> FALSE, order_id |-> incoming.order_id,
              trades |-> m.trades]

\* Index of the first order of the list with this id, 0 when there is none.
index_of(book, order_id) ==
    IF \E i \in 1..Len(book) : book[i].order_id = order_id
    THEN CHOOSE i \in 1..Len(book) :
             /\ book[i].order_id = order_id
             /\ \A j \in 1..(i - 1) : book[j].order_id # order_id
    ELSE 0

\* `del book[i]`
remove_at_onwards(book, i) == SubSeq(book, 1, i - 1)

remove_at(book, i) == SubSeq(book, 1, i - 1) \o SubSeq(book, i + 1, Len(book))

cancel(ob, order_id) ==
    LET ib == index_of(ob.bids, order_id)
        ia == index_of(ob.asks, order_id)
    IN  IF ib > 0 THEN [ob |-> [ob EXCEPT !.bids = remove_at(@, ib)], ret |-> TRUE]
        ELSE IF ia > 0
        THEN [ob |-> [ob EXCEPT !.asks = remove_at(@, ia)], ret |-> TRUE]
        ELSE [ob |-> ob, ret |-> FALSE]

\* A call of modify that returns b without re-pricing.
Returned(ob, b) == [ob |-> ob, raised |-> FALSE, ret |-> b, repriced |-> FALSE]

\* The price-change branch of modify: delete, then submit at the new price.
modify_price_in_place(ob, onBids, idx, order, new_qty, new_price) ==
    LET q == IF new_qty # None THEN new_qty[1] ELSE order.qty_kwh
        o2 == [order EXCEPT !.price_cperkwh = normalize_price(new_price[1]),
                            !.qty_kwh = q]
        ob1 == IF onBids THEN [ob EXCEPT !.bids = remove_at(@, idx)]
               ELSE [ob EXCEPT !.asks = remove_at(@, idx)]
    IN  IF q <= 0 \/ price_raises(new_price[1])
        THEN [ob |-> ob1, raised |-> TRUE, ret |-> FALSE, repriced |-> TRUE]
        ELSE [ob |-> rest(ob1, o2), raised |-> FALSE, ret |-> TRUE,
              repriced |-> TRUE]

modify_price(ob, onBids, idx, order, new_qty, new_price) ==
    LET ob1 == IF onBids THEN [ob EXCEPT !.bids = remove_at(@, idx)]
               ELSE [ob EXCEPT !.asks = remove_at(@, idx)]
        s == submit(ob1, order.agent_id, order.side, new_price[1],
                    IF new_qty # None THEN new_qty[1] ELSE order.qty_kwh)
    IN  [ob |-> s.ob, raised |-> s.raised, ret |-> ~s.raised,
         repriced |-> TRUE]

\* The quantity-only branch of modify: `o.qty_kwh = new_qty_kwh` in place.
modify_qty_requeue(ob, onBids, idx, qty) ==
    LET o == IF onBids THEN ob.bids[idx] ELSE ob.asks[idx]
        o2 == [o EXCEPT !.qty_kwh = qty, !.arrival_seq = ob.arrival_counter + 1]
        ob1 == IF onBids THEN [ob EXCEPT !.bids = remove_at(@, idx)]
               ELSE [ob EXCEPT !.asks = remove_at(@, idx)]
    IN  rest([ob1 EXCEPT !.arrival_counter = @ + 1], o2)

modify_qty(ob, onBids, idx, qty) ==
    IF onBids THEN [ob EXCEPT !.bids[idx].qty_kwh = qty]
    ELSE [ob EXCEPT !.asks[idx].qty_kwh = qty]

modify(ob, order_id, new_qty, new_price) ==
    LET ib == index_of(ob.bids, order_id)
        ia == IF ib > 0 THEN 0 ELSE index_of(ob.asks, order_id)
        onBids == ib > 0
        idx == IF onBids THEN ib ELSE ia
        order == IF onBids THEN ob.bids[ib] ELSE ob.asks[ia]
    IN  IF ib = 0 /\ ia = 0 THEN Returned(ob, FALSE)
        ELSE IF new_price = None
        THEN IF new_qty = None THEN Returned(ob, FALSE)
             ELSE IF new_qty[1] <= 0
             THEN Returned(IF onBids THEN [ob EXCEPT !.bids = remove_at(@, idx)]
                           ELSE [ob EXCEPT !.asks = remove_at(@, idx)], TRUE)
             ELSE Returned(modify_qty(ob, onBids, idx, new_qty[1]), TRUE)
        ELSE modify_price(ob, onBids, idx, order, new_qty, new_price)

\* best_bid / best_ask: None when the side is empty.
best_bid(ob) == IF ob.bids # <<>> THEN Some(ob.bids[1].price_cperkwh) ELSE None

best_ask(ob) == IF ob.asks # <<>> THEN Some(ob.asks[1].price_cperkwh) ELSE None

\* snapshot: new lists holding the book's own Order objects.
snapshot(ob) == <<ob.bids, ob.asks>>

\* clear_trades: hands out the log and starts a new one.
clear_trades_keep(ob) == [ob |-> ob, ret |-> ob.trades]

clear_trades(ob) == [ob |-> [ob EXCEPT !.trades = <<>>], ret |-> ob.trades]

----------------------------------------------------------------------------
(* The calls as actions *)

NoReplay == [todo |-> <<>>, done |-> <<>>]

\* A NoRegretLearner as constructed: arms_cents, _counts and _values are None
\* until the first decide; decided counts its decide calls that had a quote.
LearnerNew ==
    [arms_cents |-> None, counts |-> None, values |-> None, decided |-> 0]

Init ==
    /\ bids = <<>>
    /\ asks = <<>>
    /\ id_counter = 0
    /\ arrival_counter = 0
    /\ trades = <<>>
    /\ replay = NoReplay
    /\ learner = LearnerNew
    /\ run = None
    /\ last = [op |-> "init", raised |-> FALSE, ret |-> TRUE, repriced |-> FALSE]

SetBook(ob) ==
    /\ bids' = ob.bids
    /\ asks' = ob.asks
    /\ id_counter' = ob.id_counter
    /\ arrival_counter' = ob.arrival_counter
    /\ trades' = ob.trades

Submit ==
    /\ id_counter < MaxOrders
    /\ \E agent \in AgentIds, side \in Sides, price \in RawPrices, qty \in Qtys :
          \E r \in {submit(OB, agent, side, price, qty)} :
              /\ SetBook(r.ob)
              /\ last' = [op |-> "submit", raised |-> r.raised, ret |-> ~r.raised,
                          repriced |-> FALSE]
    /\ UNCHANGED <<replay, learner, run>>

Cancel ==
    /\ \E order_id \in 0..MaxOrders :
          \E r \in {cancel(OB, order_id)} :
              /\ SetBook(r.ob)
              /\ last' = [op |-> "cancel", raised |-> FALSE, ret |-> r.ret,
                          repriced |-> FALSE]
    /\ UNCHANGED <<replay, learner, run>>

Modify ==
    /\ id_counter < MaxOrders
    /\ \E order_id \in 0..MaxOrders, new_qty \in Opt(Qtys),
          new_price \in Opt(RawPrices) :
          \E r \in {modify(OB, order_id, new_qty, new_price)} :
              /\ SetBook(r.ob)
              /\ last' = [op |-> "modify", raised |-> r.raised, ret |-> r.ret,
                          repriced |-> r.repriced]
    /\ UNCHANGED <<replay, learner, run>>

ClearTrades ==
    /\ \E r \in {clear_trades(OB)} :
          /\ SetBook(r.ob)
          /\ last' = [op |-> "clear_trades", raised |-> FALSE, ret |-> TRUE,
                      repriced |-> FALSE, returned |-> r.ret]
    /\ UNCHANGED <<replay, learner, run>>

Next == Submit \/ Cancel \/ Modify \/ ClearTrades

Spec == Init /\ [][Next]_vars

----------------------------------------------------------------------------
(* Welfare metrics (sim/metrics.py) *)

StepMin == 5          \* step_min: minutes per interval

\* feeder_limit_kw * (step_min / 60.0) kWh, in quantity units of 1/12 kWh.
energy_cap(feeder_limit_kw) == (feeder_limit_kw * StepMin * 12) \div 60

\* a sorts strictly before b under the key of the named sort:
\*   "bids"  (-price, arrival_seq)     "asks"  (price, arrival_seq)
\*   "desc"  -price                    "asc"   price
key_less(mode, a, b) ==
    CASE mode = "bids" ->
           \/ a.price_cperkwh > b.price_cperkwh
           \/ (a.price_cperkwh = b.price_cperkwh /\ a.arrival_seq < b.arrival_seq)
      [] mode = "asks" ->
           \/ a.price_cperkwh < b.price_cperkwh
           \/ (a.price_cperkwh = b.price_cperkwh /\ a.arrival_seq < b.arrival_seq)
      [] mode = "desc" -> a.price_cperkwh > b.price_cperkwh
      [] OTHER -> a.price_cperkwh < b.price_cperkwh

\* Python's sorted(): stable, so an element goes behind its equals.
RECURSIVE sorted(_, _)
sorted(s, mode) ==
    IF s = <<>> THEN <<>>
    ELSE LET init == sorted(SubSeq(s, 1, Len(s) - 1), mode)
             x == s[Len(s)]
             ahead == {i \in 1..Len(init) : ~key_less(mode, x, init[i])}
             pos == IF ahead = {} THEN 0
                    ELSE CHOOSE i \in ahead : \A k \in ahead : k <= i
         IN  SubSeq(init, 1, pos) \o <<x>> \o SubSeq(init, pos + 1, Len(init))

\* compute_quote_welfare: reads bid_price_cperkwh and ask_price_cperkwh of
\* every trade; a record without these attributes raises AttributeError.
RECURSIVE compute_quote_welfare(_)
compute_quote_welfare(trs) ==
    IF trs = <<>> THEN [raised |-> FALSE, w |-> 0]
    ELSE LET tr == Head(trs)
         IN  IF {"bid_price_cperkwh", "ask_price_cperkwh"} \subseteq DOMAIN tr
             THEN LET r == compute_quote_welfare(Tail(trs))
                  IN  IF r.raised THEN r
                      ELSE [raised |-> FALSE,
                            w |-> (tr.bid_price_cperkwh - tr.ask_price_cperkwh)
                                      * tr.qty_kwh + r.w]
             ELSE [raised |-> TRUE, w |-> 0]

\* The while loop of planner_bound_quote_welfare; cap is None or <<kWh>>.
RECURSIVE planner_loop(_, _, _, _, _, _, _)
planner_loop(bl, al, i, j, w, traded, cap) ==
    IF i <= Len(bl) /\ j <= Len(al)
    THEN LET bp == bl[i].price_cperkwh
             bq == bl[i].qty_kwh
             ap == al[j].price_cperkwh
             aq == al[j].qty_kwh
             remaining == IF cap = None THEN 0 ELSE Max(0, cap[1] - traded)
             qty == IF cap = None THEN Min(bq, aq)
                    ELSE Min(Min(bq, aq), remaining)
         IN  IF bp < ap THEN [bound |-> w, traded |-> traded]
             ELSE IF cap # None /\ remaining <= 0
             THEN [bound |-> w, traded |-> traded]
             ELSE planner_loop(
                      IF bq - qty <= 0 THEN bl
                      ELSE [bl EXCEPT ![i].qty_kwh = bq - qty],
                      IF aq - qty <= 0 THEN al
                      ELSE [al EXCEPT ![j].qty_kwh = aq - qty],
                      IF bq - qty <= 0 THEN i + 1 ELSE i,
                      IF aq - qty <= 0 THEN j + 1 ELSE j,
                      w + (bp - ap) * qty, traded + qty, cap)
    ELSE [bound |-> w, traded |-> traded]

\* feeder_limit_kw is None or <<kW>>.
planner_bound_quote_welfare(bs, as, feeder_limit_kw) ==
    planner_loop(sorted(bs, "desc"), sorted(as, "asc"), 1, 1, 0, 0,
                 IF feeder_limit_kw = None THEN None
                 ELSE Some(energy_cap(feeder_limit_kw[1])))

----------------------------------------------------------------------------
(* A driver that submits a given list of orders to a fresh book, as the     *)
(* tests do (tests/test_matching.py, tests/test_metrics.py).                *)

ReplayOrders ==
    {Order(0, p, q, s, a, 0) :
        p \in {x \in RawPrices : x >= 0}, q \in {x \in Qtys : x > 0},
        s \in Sides, a \in AgentIds}

Scripts == UNION {[1..n -> ReplayOrders] : n \in 0..MaxOrders}

InitReplay ==
    /\ bids = <<>>
    /\ asks = <<>>
    /\ id_counter = 0
    /\ arrival_counter = 0
    /\ trades = <<>>
    /\ replay \in {[todo |-> sc, done |-> <<>>] : sc \in Scripts}
    /\ learner = LearnerNew
    /\ run = None
    /\ last = [op |-> "init", raised |-> FALSE, ret |-> TRUE, repriced |-> FALSE]

ReplaySubmit ==
    /\ replay.todo # <<>>
    /\ LET o == Head(replay.todo)
           r == submit(OB, o.agent_id, o.side, o.price_cperkwh, o.qty_kwh)
       IN  /\ SetBook(r.ob)
           /\ last' = [op |-> "submit", raised |-> r.raised, ret |-> ~r.raised,
                       repriced |-> FALSE]
           /\ replay' = [todo |-> Tail(replay.todo),
                         done |-> Append(replay.done, o)]
    /\ UNCHANGED <<learner, run>>

NextReplay == ReplaySubmit

SpecReplay == InitReplay /\ [][NextReplay]_vars

----------------------------------------------------------------------------
(* Call auction (market/clearing.py) *)

MaxAgents == 2        \* agents deciding in one interval

MaxBook == 3          \* orders resting or posted in one call auction

\* Trade(**kw): the dataclass __init__ takes exactly the fields of Trade and
\* raises TypeError for any other keyword.
trade_init_ok(kw) == DOMAIN kw = TradeFields

\* The price test that ends _batch_match's loop.
batch_stops_at_equal(bb, aa) == bb.price_cperkwh <= aa.price_cperkwh

batch_stops(bb, aa) == bb.price_cperkwh < aa.price_cperkwh

\* The loop with neither the energy budget nor Trade's keyword check; its
\* trades carry the fields of Trade.
RECURSIVE batch_loop_uncapped(_, _, _, _, _, _, _)
batch_loop_uncapped(b, a, i, j, traded, cap, out) ==
    IF i <= Len(b) /\ j <= Len(a) /\ ~batch_stops(b[i], a[j])
    THEN LET qty == Min(b[i].qty_kwh, a[j].qty_kwh)
             tr == [price_cperkwh |-> a[j].price_cperkwh, qty_kwh |-> qty,
                    buy_agent |-> b[i].agent_id, sell_agent |-> a[j].agent_id,
                    maker_order_id |-> a[j].order_id,
                    taker_order_id |-> b[i].order_id]
         IN  batch_loop_uncapped([b EXCEPT ![i].qty_kwh = @ - qty],
                                 [a EXCEPT ![j].qty_kwh = @ - qty],
                                 IF b[i].qty_kwh - qty <= 0 THEN i + 1 ELSE i,
                                 IF a[j].qty_kwh - qty <= 0 THEN j + 1 ELSE j,
                                 traded + qty, cap, Append(out, tr))
    ELSE [raised |-> FALSE, trades |-> out, b |-> b, a |-> a, i |-> i,
          j |-> j, traded |-> traded]

\* The while loop of _batch_match over the sorted copies b and a; cap is None
\* or <<kWh>>.
RECURSIVE batch_loop(_, _, _, _, _, _, _)
batch_loop(b, a, i, j, traded, cap, out) ==
    LET done == [raised |-> FALSE, trades |-> out, b |-> b, a |-> a, i |-> i,
                 j |-> j, traded |-> traded]
    IN  IF i <= Len(b) /\ j <= Len(a)
        THEN LET bb == b[i]
                 aa == a[j]
                 remaining == IF cap = None THEN 0 ELSE Max(0, cap[1] - traded)
                 qty == IF cap = None THEN Min(bb.qty_kwh, aa.qty_kwh)
                        ELSE Min(Min(bb.qty_kwh, aa.qty_kwh), remaining)
                 kw == [price_cperkwh |-> aa.price_cperkwh,
                        qty_kwh |-> qty,
                        buy_agent |-> bb.agent_id,
                        sell_agent |-> aa.agent_id,
                        maker_order_id |-> aa.order_id,
                        taker_order_id |-> bb.order_id,
                        bid_price_cperkwh |-> bb.price_cperkwh,
                        ask_price_cperkwh |-> aa.price_cperkwh]
             IN  IF batch_stops(bb, aa) THEN done
                 ELSE IF cap # None /\ remaining <= 0 THEN done
                 ELSE IF qty <= 0 THEN done
                 ELSE IF ~trade_init_ok(kw) THEN [done EXCEPT !.raised = TRUE]
                 ELSE batch_loop([b EXCEPT ![i].qty_kwh = @ - qty],
                                 [a EXCEPT ![j].qty_kwh = @ - qty],
                                 IF bb.qty_kwh - qty <= 0 THEN i + 1 ELSE i,
                                 IF aa.qty_kwh - qty <= 0 THEN j + 1 ELSE j,
                                 traded + qty, cap, Append(out, kw))
        ELSE done

\* The residuals without the order at the loop's position.
residual_behind(s, i, mode) ==
    sorted(SelectSeq(SubSeq(s, i + 1, Len(s)), LAMBDA o : o.qty_kwh > 0), mode)

\* The residuals of one side: the positive-quantity orders from the loop's
\* position on, then those before it, sorted again.
residual(s, i, mode) ==
    sorted(SelectSeq(SubSeq(s, i, Len(s)), LAMBDA o : o.qty_kwh > 0)
               \o SelectSeq(SubSeq(s, 1, i - 1), LAMBDA o : o.qty_kwh > 0),
           mode)

\* _batch_match; feeder_limit_kw is None or <<kW>>.
batch_match(bs, as, feeder_limit_kw) ==
    LET m == batch_loop(sorted(bs, "bids"), sorted(as, "asks"), 1, 1, 0,
                        IF feeder_limit_kw = None THEN None
                        ELSE Some(energy_cap(feeder_limit_kw[1])), <<>>)
    IN  [raised |-> m.raised, trades |-> m.trades, traded |-> m.traded,
         residual_bids |-> residual(m.b, m.i, "bids"),
         residual_asks |-> residual(m.a, m.j, "asks")]

\* What one agent brings to an interval: the action its decide returns and
\* what its make_quote returns.  An action is a dict; a key it lacks is None.
Act(type, price, qty, side) ==
    [type |-> type, price |-> price, qty_kwh |-> qty, side |-> side]

Quote(price, qty, side) == [price |-> price, qty_kwh |-> qty, side |-> side]

\* `act.get(key) or 0.0`
or_zero(v) == IF v = None THEN 0 ELSE v[1]

\* The order step_interval_call builds from one agent's action (price,
\* quantity and side), or None when the agent posts nothing.
call_order(move) ==
    LET act == move.act
        price == or_zero(act.price)
        qty == or_zero(act.qty_kwh)
        side == IF act.side # None THEN act.side[1]
                ELSE IF move.quote # None THEN move.quote[1].side ELSE "buy"
    IN  IF act.type \in {"accept", "post"}
        THEN IF qty <= 0
             THEN IF move.quote = None THEN None ELSE Some(move.quote[1])
             ELSE Some(Quote(price, qty, side))
        ELSE None

AgentNames == <<"a1", "a2", "a3", "a4">>

\* The loop over the agents: the orders posted, in agent order, with the
\* arrival sequences they are given.
RECURSIVE call_posts(_, _, _, _)
call_posts(moves, k, next_seq, out) ==
    IF k > Len(moves) THEN out
    ELSE LET q == call_order(moves[k])
         IN  IF q = None THEN call_posts(moves, k + 1, next_seq, out)
             ELSE call_posts(moves, k + 1, next_seq + 1,
                             Append(out, Order(0, q[1].price, q[1].qty_kwh,
                                               q[1].side, AgentNames[k],
                                               next_seq)))

RECURSIVE MaxSeqOf(_)
MaxSeqOf(s) == IF s = <<>> THEN 0 ELSE Max(Head(s).arrival_seq, MaxSeqOf(Tail(s)))

\* The book an agent's snapshot is taken from while the agents decide, given
\* the orders posted so far in the interval: these are kept in posted_bids
\* and posted_asks; ob.bids and ob.asks are assigned after the batch match.
RECURSIVE call_book_posted(_, _)
call_book_posted(ob, posts) ==
    IF posts = <<>> THEN ob
    ELSE call_book_posted(rest(ob, Head(posts)), Tail(posts))

call_book(ob, posts) == ob

\* The snapshot each agent's decide is given, in agent order.
call_seen(ob, moves, next_seq) ==
    [k \in 1..Len(moves) |->
        snapshot(call_book(ob, call_posts(SubSeq(moves, 1, k - 1), 1, next_seq,
                                          <<>>)))]

step_interval_call(ob, moves, feeder_limit_kw) ==
    LET next_seq == MaxSeqOf(ob.bids \o ob.asks) + 1
        posts == call_posts(moves, 1, next_seq, <<>>)
        posted_bids == SelectSeq(posts, LAMBDA o : o.side = "buy")
        posted_asks == SelectSeq(posts, LAMBDA o : o.side # "buy")
        m == batch_match(ob.bids \o posted_bids, ob.asks \o posted_asks,
                         feeder_limit_kw)
        seen == call_seen(ob, moves, next_seq)
    IN  IF m.raised
        THEN [ob |-> ob, raised |-> TRUE, trades |-> <<>>, traded |-> 0,
              posted_bids |-> posted_bids, posted_asks |-> posted_asks,
              seen |-> seen]
        ELSE [ob |-> [ob EXCEPT !.bids = m.residual_bids,
                                !.asks = m.residual_asks],
              raised |-> FALSE, trades |-> m.trades, traded |-> m.traded,
              posted_bids |-> posted_bids, posted_asks |-> posted_asks,
              seen |-> seen]

\* Inputs of the two mechanisms: quotes that cross one another in part and in
\* full, at equal and at different prices.
Quotes ==
    {Quote(10, 1, "buy"), Quote(20, 2, "buy"), Quote(10, 2, "sell"),
     Quote(20, 1, "sell")}

\* A Prosumer or ZIConstrained posts its quote ({"type": "post"}); an agent
\* without a quote returns {"type": "none"}; an accepting agent names price,
\* quantity and side.
AgentMoves ==
    {[act |-> Act("post", None, None, None), quote |-> q] : q \in Opt(Quotes)}
        \cup {[act |-> Act("none", None, None, None), quote |-> None]}
        \cup {[act |-> Act("accept", Some(q.price), Some(q.qty_kwh), Some(q.side)),
               quote |-> Some(q)] : q \in {x \in Quotes : x.qty_kwh = 1}}

FeederLimits == {0, 1}

StepIntervalCall ==
    /\ \E n \in 1..MaxAgents :
          /\ Len(bids) + Len(asks) + n <= MaxBook
          /\ \E moves \in [1..n -> AgentMoves],
                feeder_limit_kw \in Opt(FeederLimits) :
                \E r \in {step_interval_call(OB, moves, feeder_limit_kw)} :
                    /\ SetBook(r.ob)
                    /\ last' = [op |-> "step_interval_call",
                                raised |-> r.raised, ret |-> ~r.raised,
                                repriced |-> FALSE,
                                posted |-> Len(r.posted_bids)
                                               + Len(r.posted_asks),
                                budget_left |->
                                    \/ feeder_limit_kw = None
                                    \/ r.traded < energy_cap(feeder_limit_kw[1])]
    /\ UNCHANGED <<replay, learner, run>>

NextCall == StepIntervalCall

SpecCall == Init /\ [][NextCall]_vars

----------------------------------------------------------------------------
(* Continuous mechanism (market/clearing.py, step_interval) *)

\* The snapshot handed to an agent's decide, given the book at the start of
\* the interval and the book as it is when the agent's turn comes:
\* `ob.snapshot()` inside the loop over the agents.
cda_snapshot_start(start, now) == snapshot(start)

cda_snapshot(start, now) == snapshot(now)

\* `act.get(key, 0.0)`: the default stands in for a key the dict lacks.
get_or_zero(v) == IF v = None THEN 0 ELSE v[1]

\* What step_interval submits for one agent (price, quantity and side), or
\* None when it submits nothing: an accept of positive quantity is submitted
\* as it is; any other action is replaced by the agent's make_quote.
cda_order(move) ==
    LET act == move.act
        side == IF act.side = None THEN "buy" ELSE act.side[1]
        price == get_or_zero(act.price)
        qty == get_or_zero(act.qty_kwh)
    IN  IF act.type = "accept" /\ qty > 0 THEN Some(Quote(price, qty, side))
        ELSE move.quote

\* The loop over the agents; seen collects the snapshot each agent was given.
RECURSIVE cda_loop(_, _, _, _, _)
cda_loop(start, ob, moves, k, seen) ==
    IF k > Len(moves) THEN [ob |-> ob, raised |-> FALSE, seen |-> seen]
    ELSE LET seen2 == Append(seen, cda_snapshot(start, ob))
             q == cda_order(moves[k])
         IN  IF q = None THEN cda_loop(start, ob, moves, k + 1, seen2)
             ELSE LET s == submit(ob, AgentNames[k], q[1].side, q[1].price,
                                  q[1].qty_kwh)
                  IN  IF s.raised
                      THEN [ob |-> s.ob, raised |-> TRUE, seen |-> seen2]
                      ELSE cda_loop(start, s.ob, moves, k + 1, seen2)

\* step_interval: the loop, then clear_trades for the interval's report.
step_interval(ob, moves) ==
    LET l == cda_loop(ob, ob, moves, 1, <<>>)
        c == clear_trades(l.ob)
    IN  IF l.raised
        THEN [ob |-> l.ob, raised |-> TRUE, seen |-> l.seen,
              trades_detail |-> <<>>]
        ELSE [ob |-> c.ob, raised |-> FALSE, seen |-> l.seen,
              trades_detail |-> c.ret]

\* Accepts that name no price, or a quantity that is not positive, from an
\* agent with or without a quote of its own.
InfeasibleMoves ==
    {[act |-> Act("accept", None, Some(1), Some("sell")),
      quote |-> Some(Quote(20, 1, "sell"))],
     [act |-> Act("accept", Some(10), Some(0), Some("buy")),
      quote |-> Some(Quote(20, 1, "sell"))],
     [act |-> Act("accept", Some(10), Some(-1), Some("buy")), quote |-> None]}

\* An agent posts its quote or has none, accepts a resting offer by naming
\* price, quantity and side, or returns an accept that is not feasible.
CdaMoves ==
    {[act |-> Act("post", None, None, None), quote |-> q] : q \in Opt(Quotes)}
      \cup {[act |-> Act("accept", Some(20), Some(1), Some("buy")),
             quote |-> Some(Quote(10, 1, "buy"))],
            [act |-> Act("accept", Some(10), Some(1), Some("sell")),
             quote |-> Some(Quote(20, 1, "sell"))]}
      \cup InfeasibleMoves

StepInterval ==
    /\ \E n \in 1..MaxAgents :
          /\ id_counter + n <= MaxOrders
          /\ \E moves \in [1..n -> CdaMoves] :
                \E r \in {step_interval(OB, moves)} :
                    /\ SetBook(r.ob)
                    /\ last' = [op |-> "step_interval", raised |-> r.raised,
                                ret |-> ~r.raised, repriced |-> FALSE,
                                submitted |-> r.ob.id_counter - id_counter]
    /\ UNCHANGED <<replay, learner, run>>

NextCda == StepInterval

SpecCda == Init /\ [][NextCda]_vars

----------------------------------------------------------------------------
(* Callers that write to what snapshot() returned *)

\* snapshot() is (list(self.bids), list(self.asks)): the lists are new, the
\* Order objects in them are the book's own.  The book after a caller runs
\* `snapshot()[side][i].field = v`:
snapshot_order_write(ob, side, i, field, v) ==
    IF side = "buy"
    THEN [ob EXCEPT !.bids[i] = [@ EXCEPT ![field] = v]]
    ELSE [ob EXCEPT !.asks[i] = [@ EXCEPT ![field] = v]]

\* The book after a caller runs `del snapshot()[side][i]`.
snapshot_list_write(ob, side, i) == ob

SnapshotOrderWrite ==
    /\ \E side \in Sides :
          \E i \in 1..Len(IF side = "buy" THEN bids ELSE asks) :
             \E w \in ({"qty_kwh"} \X {1, 2}) \cup ({"price_cperkwh"} \X {10, 30}) :
                SetBook(snapshot_order_write(OB, side, i, w[1], w[2]))
    /\ last' = [op |-> "snapshot_order_write", raised |-> FALSE, ret |-> TRUE,
                repriced |-> FALSE]
    /\ UNCHANGED <<replay, learner, run>>

SnapshotListWrite ==
    /\ \E side \in Sides :
          \E i \in 1..Len(IF side = "buy" THEN bids ELSE asks) :
             SetBook(snapshot_list_write(OB, side, i))
    /\ last' = [op |-> "snapshot_list_write", raised |-> FALSE, ret |-> TRUE,
                repriced |-> FALSE]
    /\ UNCHANGED <<replay, learner, run>>

NextSnap ==
    Submit \/ Cancel \/ Modify \/ ClearTrades \/ SnapshotOrderWrite
        \/ SnapshotListWrite

SpecSnap == Init /\ [][NextSnap]_vars

----------------------------------------------------------------------------
(* Agents (agents/satisficer.py, optimizer.py, learner.py, zi.py)          *)
(* decide(snapshot, t) reads the agent's quote (make_quote(t), None when   *)
(* the agent has nothing to trade) and the opposite side of the snapshot.  *)
(* A decide is modelled by its outcome: whether it raised, the action dict *)
(* it returned and the snapshot lists as the call left them.               *)

\* An action dict with only its type; a key the dict lacks is None.
ActionDict(type) ==
    [type |-> type, order_id |-> None, qty_kwh |-> None, price |-> None,
     side |-> None, offers_seen |-> None, solver_calls |-> None,
     learners_steps |-> None]

\* The snapshot lists after a decide that returned act: no agent writes to
\* the lists or to the orders in them.
after_decide_filled(snap, act) ==
    LET fill(book) ==
            [i \in 1..Len(book) |->
                IF act.order_id = Some(book[i].order_id)
                THEN [book[i] EXCEPT !.qty_kwh = @ - act.qty_kwh[1]]
                ELSE book[i]]
    IN  <<fill(snap[1]), fill(snap[2])>>

after_decide(snap, act) == snap

Returns(act, snap) ==
    [raised |-> FALSE, act |-> Some(act), snap |-> after_decide(snap, act)]

Raises(snap) == [raised |-> TRUE, act |-> None, snap |-> snap]

\* `asks if side == "buy" else bids` of a snapshot <<bids, asks>>.
opposite_list(snap, side) == IF side = "buy" THEN snap[2] ELSE snap[1]

\* An order is feasible for a quote when its price crosses the quote's.
feasible(side, price, q_price) ==
    \/ side = "buy" /\ price <= q_price
    \/ side = "sell" /\ price >= q_price

Abs(x) == IF x < 0 THEN -x ELSE x

\* `abs(price - q_price) / q_price <= tau_percent / 100.0`, for q_price > 0.
within_band_strict(price, q_price, tau_percent) ==
    Abs(price - q_price) * 100 < tau_percent * q_price

within_band(price, q_price, tau_percent) ==
    Abs(price - q_price) * 100 <= tau_percent * q_price

\* Satisficer, mode band: the scan from order i on.
RECURSIVE band_scan(_, _, _, _, _)
band_scan(opp, i, quote, tau_percent, snap) ==
    IF i > Len(opp)
    THEN Returns([ActionDict("post") EXCEPT !.offers_seen = Some(Len(opp))],
                 snap)
    ELSE LET o == opp[i]
             price == o.price_cperkwh
         IN  IF quote.price = 0
             THEN band_scan(opp, i + 1, quote, tau_percent, snap)
             ELSE IF /\ feasible(quote.side, price, quote.price)
                     /\ within_band(price, quote.price, tau_percent)
                  THEN Returns([ActionDict("accept") EXCEPT
                                   !.order_id = Some(o.order_id),
                                   !.qty_kwh = Some(Min(quote.qty_kwh, o.qty_kwh)),
                                   !.offers_seen = Some(i),
                                   !.price = Some(price),
                                   !.side = Some(quote.side)],
                               snap)
                  ELSE band_scan(opp, i + 1, quote, tau_percent, snap)

\* `opp[:k]` with k = max(1, int(k_max)).
k_window_all(opp, k_max) == opp

k_window(opp, k_max) == SubSeq(opp, 1, Min(Max(1, k_max), Len(opp)))

\* Satisficer, mode k_search: the best feasible order of the window, the
\* first one among equals (`key < best[0]`); None when none is feasible.
RECURSIVE k_search_best(_, _, _, _)
k_search_best(window, i, quote, best) ==
    IF i > Len(window) THEN best
    ELSE LET o == window[i]
             key == IF quote.side = "buy" THEN o.price_cperkwh
                    ELSE -o.price_cperkwh
         IN  IF ~feasible(quote.side, o.price_cperkwh, quote.price)
             THEN k_search_best(window, i + 1, quote, best)
             ELSE IF best = None \/ key < best[1].key
                  THEN k_search_best(window, i + 1, quote,
                                     Some([key |-> key, order |-> o]))
                  ELSE k_search_best(window, i + 1, quote, best)

k_search(opp, quote, k_max, snap) ==
    LET window == k_window(opp, k_max)
        best == k_search_best(window, 1, quote, None)
    IN  IF best = None
        THEN Returns([ActionDict("post") EXCEPT
                         !.offers_seen = Some(Len(window))], snap)
        ELSE Returns([ActionDict("accept") EXCEPT
                         !.order_id = Some(best[1].order.order_id),
                         !.qty_kwh = Some(Min(quote.qty_kwh,
                                              best[1].order.qty_kwh)),
                         !.offers_seen = Some(Len(window)),
                         !.price = Some(best[1].order.price_cperkwh),
                         !.side = Some(quote.side)],
                     snap)

\* Satisficer, mode k_greedy: the quantity gathered from the feasible orders
\* of the window and the number of orders looked at; the scan ends as soon as
\* the desired quantity is covered.
RECURSIVE k_greedy_scan(_, _, _, _, _)
k_greedy_scan(window, i, quote, feasible_qty, offers_seen) ==
    IF i > Len(window)
    THEN [feasible_qty |-> feasible_qty, offers_seen |-> offers_seen]
    ELSE LET o == window[i]
             take == Min(quote.qty_kwh - feasible_qty, o.qty_kwh)
             got == feasible_qty + Max(0, take)
         IN  IF feasible(quote.side, o.price_cperkwh, quote.price)
             THEN IF got >= quote.qty_kwh
                  THEN [feasible_qty |-> quote.qty_kwh, offers_seen |-> i]
                  ELSE k_greedy_scan(window, i + 1, quote, got, i)
             ELSE k_greedy_scan(window, i + 1, quote, feasible_qty, i)

k_greedy(opp, quote, k_max, snap) ==
    LET s == k_greedy_scan(k_window(opp, k_max), 1, quote, 0, 0)
    IN  IF s.feasible_qty <= 0
        THEN Returns([ActionDict("post") EXCEPT
                         !.offers_seen = Some(s.offers_seen)], snap)
        ELSE Returns([ActionDict("accept") EXCEPT
                         !.qty_kwh = Some(s.feasible_qty),
                         !.offers_seen = Some(s.offers_seen),
                         !.price = Some(quote.price),
                         !.side = Some(quote.side)],
                     snap)

\* Satisficer.decide, for the agent's mode.
satisficer_decide(agent, quote, snap) ==
    IF quote = None
    THEN Returns([ActionDict("none") EXCEPT !.offers_seen = Some(0)], snap)
    ELSE LET q == quote[1]
             opp == opposite_list(snap, q.side)
         IN  CASE agent.mode = "band" ->
                    band_scan(opp, 1, q, agent.tau_percent, snap)
               [] agent.mode = "k_search" -> k_search(opp, q, agent.k_max, snap)
               [] agent.mode = "k_greedy" -> k_greedy(opp, q, agent.k_max, snap)
               [] OTHER ->
                    Returns([ActionDict("post") EXCEPT
                                !.offers_seen = Some(0)], snap)

\* Optimizer and NoRegretLearner read an order's fields as
\* `getattr(o, name, None) or o[i]`: a field that is 0 is falsy, the fallback
\* indexes the Order and raises TypeError.
falsy_field(v) == v = 0

\* Optimizer.decide's first loop: the feasible orders, in book order; None
\* when reading an order raised.
RECURSIVE optimizer_feas(_, _, _, _)
optimizer_feas(opp, i, quote, feas) ==
    IF i > Len(opp) THEN Some(feas)
    ELSE LET o == opp[i]
         IN  IF \/ falsy_field(o.price_cperkwh)
                \/ falsy_field(o.order_id)
                \/ falsy_field(o.qty_kwh)
             THEN None
             ELSE optimizer_feas(opp, i + 1, quote,
                      IF feasible(quote.side, o.price_cperkwh, quote.price)
                      THEN Append(feas, o) ELSE feas)

\* min(feas, key=price) for a buyer, max(feas, key=price) for a seller: the
\* first of the orders with the best price.
RECURSIVE single_best_swapped(_, _, _, _)
single_best_swapped(feas, i, side, best) ==
    IF i > Len(feas) THEN best
    ELSE IF \/ side = "buy" /\ feas[i].price_cperkwh > best.price_cperkwh
            \/ side # "buy" /\ feas[i].price_cperkwh < best.price_cperkwh
         THEN single_best_swapped(feas, i + 1, side, feas[i])
         ELSE single_best_swapped(feas, i + 1, side, best)

RECURSIVE single_best(_, _, _, _)
single_best(feas, i, side, best) ==
    IF i > Len(feas) THEN best
    ELSE IF \/ side = "buy" /\ feas[i].price_cperkwh < best.price_cperkwh
            \/ side # "buy" /\ feas[i].price_cperkwh > best.price_cperkwh
         THEN single_best(feas, i + 1, side, feas[i])
         ELSE single_best(feas, i + 1, side, best)

\* `scanned = len(opp)`.
scanned(opp, feas) == Len(opp)

\* Optimizer, mode greedy: the feasible quantity summed in book order until
\* it covers the desired quantity.
RECURSIVE total_feasible(_, _, _, _)
total_feasible(feas, i, q_qty, total) ==
    IF i > Len(feas) THEN total
    ELSE LET t == total + feas[i].qty_kwh
         IN  IF t >= q_qty THEN t ELSE total_feasible(feas, i + 1, q_qty, t)

\* `qty = min(q_qty, total_feasible)`.
greedy_qty_quote(q_qty, total) == q_qty

greedy_qty(q_qty, total) == Min(q_qty, total)

\* Optimizer.decide, for the agent's mode.
optimizer_decide(agent, quote, snap) ==
    IF quote = None
    THEN Returns([ActionDict("none") EXCEPT !.solver_calls = Some(0)], snap)
    ELSE LET q == quote[1]
             opp == opposite_list(snap, q.side)
             f == optimizer_feas(opp, 1, q, <<>>)
         IN  IF f = None THEN Raises(snap)
             ELSE LET feas == f[1]
                      calls == Some(scanned(opp, feas))
                      post == [ActionDict("post") EXCEPT !.solver_calls = calls]
                  IN  IF feas = <<>> THEN Returns(post, snap)
                      ELSE IF agent.mode = "single"
                      THEN LET b == single_best(feas, 2, q.side, feas[1])
                           IN  Returns([ActionDict("accept") EXCEPT
                                   !.order_id = Some(b.order_id),
                                   !.qty_kwh = Some(Min(q.qty_kwh, b.qty_kwh)),
                                   !.price = Some(b.price_cperkwh),
                                   !.solver_calls = calls,
                                   !.side = Some(q.side)],
                                 snap)
                      ELSE LET qty == greedy_qty(q.qty_kwh,
                                         total_feasible(feas, 1, q.qty_kwh, 0))
                           IN  IF qty <= 0 THEN Returns(post, snap)
                               ELSE Returns([ActionDict("accept") EXCEPT
                                       !.qty_kwh = Some(qty),
                                       !.price = Some(q.price),
                                       !.solver_calls = calls,
                                       !.side = Some(q.side)],
                                     snap)

\* ZIConstrained.decide and Prosumer.decide: always post.
zi_decide(quote, snap) == Returns(ActionDict("post"), snap)

\* NoRegretLearner._ensure_arms: the default arms (cents, here in hundredths)
\* and zeroed counts and values, set when they are missing.  A value is kept
\* as an exact fraction.
DefaultArms == <<-200, -100, 0, 100, 200>>

ensure_arms(st) ==
    LET arms == IF st.arms_cents = None THEN DefaultArms ELSE st.arms_cents[1]
    IN  IF \/ st.counts = None
           \/ st.values = None
           \/ Len(st.counts[1]) # Len(arms)
        THEN [st EXCEPT !.arms_cents = Some(arms),
                        !.counts = Some([i \in 1..Len(arms) |-> 0]),
                        !.values = Some([i \in 1..Len(arms) |->
                                            [num |-> 0, den |-> 1]])]
        ELSE [st EXCEPT !.arms_cents = Some(arms)]

\* The attribute `self._rng` that _choose_arm reads.  Prosumer.__post_init__
\* keeps its generator in a local variable and no class sets the attribute.
rng_attribute == None

\* NoRegretLearner._choose_arm: the arms it may return (epsilon-greedy: any
\* arm when exploring, the first best-valued one otherwise); none when
\* reading self._rng raises AttributeError.
choose_arm(st) ==
    IF rng_attribute = None THEN {} ELSE 1..Len(st.arms_cents[1])

\* NoRegretLearner._update_arm: `value += (reward - value) / count`.
update_arm(st, idx, reward) ==
    LET n == st.counts[1][idx] + 1
        val == st.values[1][idx]
    IN  [st EXCEPT !.counts = Some([st.counts[1] EXCEPT ![idx] = n]),
                   !.values = Some([st.values[1] EXCEPT ![idx] =
                       [num |-> val.num * (n - 1) + reward * val.den,
                        den |-> val.den * n]])]

\* NoRegretLearner._feasible: the best feasible order, the first one among
\* equals; raised when an order's price is 0.
RECURSIVE learner_feasible(_, _, _, _, _)
learner_feasible(opp, i, side, q_price, best) ==
    IF i > Len(opp) THEN [raised |-> FALSE, best |-> best]
    ELSE IF falsy_field(opp[i].price_cperkwh)
         THEN [raised |-> TRUE, best |-> best]
         ELSE IF /\ feasible(side, opp[i].price_cperkwh, q_price)
                 /\ \/ best = None
                    \/ side = "buy"
                         /\ opp[i].price_cperkwh < best[1].price_cperkwh
                    \/ side # "buy"
                         /\ opp[i].price_cperkwh > best[1].price_cperkwh
              THEN learner_feasible(opp, i + 1, side, q_price, Some(opp[i]))
              ELSE learner_feasible(opp, i + 1, side, q_price, best)

\* NoRegretLearner.decide once arm idx is chosen.
learner_step(st, idx, q, snap) ==
    LET offset == st.arms_cents[1][idx]
        q_price == Max(0, q.price + (IF q.side = "buy" THEN offset ELSE -offset))
        f == learner_feasible(opposite_list(snap, q.side), 1, q.side, q_price,
                              None)
        st2 == update_arm(st, idx, IF f.best # None THEN 1 ELSE 0)
    IN  IF f.raised THEN Raises(snap) @@ [learner |-> st]
        ELSE IF f.best = None
        THEN Returns([ActionDict("post") EXCEPT !.learners_steps = Some(1)],
                     snap) @@ [learner |-> st2]
        ELSE IF \/ falsy_field(f.best[1].order_id)
                \/ falsy_field(f.best[1].qty_kwh)
        THEN Raises(snap) @@ [learner |-> st2]
        ELSE Returns([ActionDict("accept") EXCEPT
                         !.order_id = Some(f.best[1].order_id),
                         !.qty_kwh = Some(Min(q.qty_kwh, f.best[1].qty_kwh)),
                         !.price = Some(f.best[1].price_cperkwh),
                         !.side = Some(q.side),
                         !.learners_steps = Some(1)],
                     snap) @@ [learner |-> st2]

\* NoRegretLearner.decide: the outcomes it can have.
learner_decide(st, quote, snap) ==
    IF quote = None
    THEN {Returns([ActionDict("none") EXCEPT !.learners_steps = Some(0)],
                  snap) @@ [learner |-> st]}
    ELSE LET st1 == [ensure_arms(st) EXCEPT !.decided = @ + 1]
         IN  IF choose_arm(st1) = {}
             THEN {Raises(snap) @@ [learner |-> st1]}
             ELSE {learner_step(st1, idx, quote[1], snap) :
                      idx \in choose_arm(st1)}

\* The agents of a run: class, mode and parameters.
Agent(cls, mode, tau_percent, k_max) ==
    [cls |-> cls, mode |-> mode, tau_percent |-> tau_percent, k_max |-> k_max]

Agents ==
    {Agent("Satisficer", "band", tau, 3) : tau \in {5, 50}}
      \cup {Agent("Satisficer", mode, 5, k) :
               mode \in {"k_search", "k_greedy"}, k \in {1, 2}}
      \cup {Agent("Optimizer", mode, 0, 0) : mode \in {"single", "greedy"}}
      \cup {Agent("NoRegretLearner", "", 0, 0), Agent("ZIConstrained", "", 0, 0)}

\* decide of an agent that keeps no state between calls.
decide(agent, quote, snap) ==
    CASE agent.cls = "Satisficer" -> satisficer_decide(agent, quote, snap)
      [] agent.cls = "Optimizer" -> optimizer_decide(agent, quote, snap)
      [] OTHER -> zi_decide(quote, snap)

MaxDecides == 2       \* decide calls of the learner that had a quote

\* The books the agents are shown: what submit leaves of up to MaxOrders
\* orders of one side.
BookPrices == {10, 20, 30}

RECURSIVE book_of(_, _)
book_of(ob, script) ==
    IF script = <<>> THEN ob
    ELSE book_of(submit(ob, "a1", Head(script).side, Head(script).price,
                        Head(script).qty_kwh).ob,
                 Tail(script))

BookScripts ==
    UNION {[1..n -> {Quote(p, q, side) : p \in BookPrices, q \in {1, 2}}] :
              n \in 0..MaxOrders, side \in Sides}

InitAgents ==
    /\ \E sc \in BookScripts :
          \E ob \in {book_of(Book(<<>>, <<>>, 0, 0, <<>>), sc)} :
              /\ bids = ob.bids
              /\ asks = ob.asks
              /\ id_counter = ob.id_counter
              /\ arrival_counter = ob.arrival_counter
              /\ trades = ob.trades
    /\ replay = NoReplay
    /\ learner = LearnerNew
    /\ run = None
    /\ last = [op |-> "init", raised |-> FALSE, ret |-> TRUE, repriced |-> FALSE]

\* One agent decides on a snapshot of the book.  The Order objects of the
\* snapshot are the book's own, so the book is what the call left of them.
Decide ==
    /\ \E agent \in Agents \ {Agent("NoRegretLearner", "", 0, 0)},
          quote \in Opt(Quotes) :
          \E r \in {decide(agent, quote, snapshot(OB))} :
              /\ bids' = r.snap[1]
              /\ asks' = r.snap[2]
              /\ last' = [op |-> "decide", raised |-> r.raised,
                          ret |-> ~r.raised, repriced |-> FALSE,
                          agent |-> agent, quote |-> quote, act |-> r.act]
    /\ UNCHANGED <<id_counter, arrival_counter, trades, replay, learner, run>>

LearnerDecide ==
    /\ learner.decided < MaxDecides
    /\ \E quote \in Opt(Quotes) :
          \E r \in learner_decide(learner, quote, snapshot(OB)) :
              /\ bids' = r.snap[1]
              /\ asks' = r.snap[2]
              /\ learner' = r.learner
              /\ last' = [op |-> "decide", raised |-> r.raised,
                          ret |-> ~r.raised, repriced |-> FALSE,
                          agent |-> Agent("NoRegretLearner", "", 0, 0),
                          quote |-> quote, act |-> r.act]
    /\ UNCHANGED <<id_counter, arrival_counter, trades, replay, run>>

NextAgents == Decide

SpecAgents == InitAgents /\ [][NextAgents]_vars

NextLearner == LearnerDecide

SpecLearner == InitAgents /\ [][NextLearner]_vars

\* Agents deciding on the book a call auction leaves.
NextCallAgents == StepIntervalCall \/ Decide \/ LearnerDecide

SpecCallAgents == Init /\ [][NextCallAgents]_vars

----------------------------------------------------------------------------
(* The simulation loops (sim/run.py run_smoke, sim/exp_runner.py run_cell) *)

\* An agent of a run and the quote its make_quote returns in the interval.
Member(agent, quote) == [agent |-> agent, quote |-> quote]

\* The decides of one step_interval, in agent order, each on the book as the
\* agents before it left it: the actions returned, as the moves cda_loop
\* acts on, and whether a decide raised.
RECURSIVE cda_decides(_, _, _)
cda_decides(ob, team, moves) ==
    IF Len(moves) = Len(team) THEN [moves |-> moves, raised |-> FALSE]
    ELSE LET k == Len(moves) + 1
             now == cda_loop(ob, ob, moves, 1, <<>>).ob
             r == decide(team[k].agent, team[k].quote, cda_snapshot(ob, now))
         IN  IF r.raised THEN [moves |-> moves, raised |-> TRUE]
             ELSE cda_decides(ob, team,
                      Append(moves, [act |-> r.act[1], quote |-> team[k].quote]))

\* The decides of one step_interval_call: every agent is shown the book of
\* the start of the interval.
RECURSIVE call_decides(_, _, _)
call_decides(ob, team, moves) ==
    IF Len(moves) = Len(team) THEN [moves |-> moves, raised |-> FALSE]
    ELSE LET k == Len(moves) + 1
             posts == call_posts(moves, 1, MaxSeqOf(ob.bids \o ob.asks) + 1,
                                 <<>>)
             r == decide(team[k].agent, team[k].quote,
                         snapshot(call_book(ob, posts)))
         IN  IF r.raised THEN [moves |-> moves, raised |-> TRUE]
             ELSE call_decides(ob, team,
                      Append(moves, [act |-> r.act[1], quote |-> team[k].quote]))

\* The agents whose decide was called, in call order, for decides that
\* returned the given moves and then raised or not.
decide_calls(d) ==
    [k \in 1..(Len(d.moves) + (IF d.raised THEN 1 ELSE 0)) |-> k]

Acts(moves) == [k \in 1..Len(moves) |-> moves[k].act]

\* What one market step leaves and reports, from its decides d and, when no
\* decide raised, the result r of acting on them.  With a decision_logger
\* the action of the one decide call is handed to the logger and acted on.
market_outcome(ob, d, r, mechanism, logger) ==
    [ob |-> IF d.raised /\ mechanism = "call" THEN ob
            ELSE IF d.raised THEN cda_loop(ob, ob, d.moves, 1, <<>>).ob
            ELSE r.ob,
     raised |-> d.raised \/ r.raised,
     decide_raised |-> d.raised,
     calls |-> decide_calls(d),
     acted |-> Acts(d.moves),
     logged |-> IF logger THEN Acts(d.moves) ELSE <<>>,
     trades_detail |-> IF d.raised \/ r.raised THEN <<>>
                       ELSE IF mechanism = "call" THEN r.trades
                       ELSE r.trades_detail]

market_clear(ob, d, mechanism, feeder_limit_kw, logger) ==
    market_outcome(ob, d,
                   CHOOSE r \in {IF mechanism = "call"
                                 THEN step_interval_call(ob, d.moves,
                                                         feeder_limit_kw)
                                 ELSE step_interval(ob, d.moves)} : TRUE,
                   mechanism, logger)

\* One market step with the agents' own decides.
market_step(ob, team, mechanism, feeder_limit_kw, logger) ==
    market_clear(ob,
                 CHOOSE d \in {IF mechanism = "call"
                               THEN call_decides(ob, team, <<>>)
                               ELSE cda_decides(ob, team, <<>>)} : TRUE,
                 mechanism, feeder_limit_kw, logger)

\* One interval of run_smoke (P2P_INTERVAL_METRICS unset): step_interval,
\* with a decision_logger when instrument and metrics_out are given.
run_smoke_interval(ob, team, logging) ==
    market_step(ob, team, "cda", None, logging)

\* The instrumentation loop of run_cell: every agent's decide is timed on one
\* snapshot taken before the market step and its action is written to the
\* decision log.
RECURSIVE instrument_decisions(_, _, _)
instrument_decisions(ob, team, moves) ==
    IF Len(moves) = Len(team) THEN [moves |-> moves, raised |-> FALSE]
    ELSE LET k == Len(moves) + 1
             r == decide(team[k].agent, team[k].quote, snapshot(ob))
         IN  IF r.raised THEN [moves |-> moves, raised |-> TRUE]
             ELSE instrument_decisions(ob, team,
                      Append(moves, [act |-> r.act[1], quote |-> team[k].quote]))

\* What one interval of run_cell leaves and reports, from the decides i of
\* the instrumentation loop and the market step m.
run_cell_outcome(ob, i, m) ==
    IF i.raised
    THEN [ob |-> ob, raised |-> TRUE, decide_raised |-> TRUE,
          calls |-> decide_calls(i), acted |-> <<>>,
          logged |-> Acts(i.moves)]
    ELSE [ob |-> m.ob,
          raised |-> m.raised \/ compute_quote_welfare(m.trades_detail).raised,
          decide_raised |-> m.decide_raised,
          calls |-> decide_calls(i) \o m.calls, acted |-> m.acted,
          logged |-> Acts(i.moves)]

\* One interval of run_cell: the instrumentation loop when
\* instrument_decisions is set, the market step without a decision_logger,
\* then the interval's welfare.
run_cell_interval(ob, team, instrument, mechanism, feeder_limit_kw) ==
    run_cell_outcome(ob,
                     CHOOSE i \in {IF instrument
                                   THEN instrument_decisions(ob, team, <<>>)
                                   ELSE [moves |-> <<>>, raised |-> FALSE]} :
                         TRUE,
                     CHOOSE m \in {market_step(ob, team, mechanism,
                                               feeder_limit_kw, FALSE)} : TRUE)

\* The agents run_smoke builds: Optimizer, Satisficer and ZIConstrained in
\* turn, each with its class defaults.
smoke_agents(n) ==
    [i \in 1..n |->
        CASE (i - 1) % 3 = 0 -> Agent("Optimizer", "single", 0, 0)
          [] (i - 1) % 3 = 1 -> Agent("Satisficer", "band", 5, 3)
          [] OTHER -> Agent("ZIConstrained", "", 0, 0)]

\* The agents build_agents makes for a cell: n agents of one type.
RunAgents ==
    {Agent("Optimizer", "single", 0, 0), Agent("Satisficer", "k_search", 5, 1),
     Agent("ZIConstrained", "", 0, 0)}

cell_agents(agent, n) == [i \in 1..n |-> agent]

MaxIntervals == 2     \* intervals of one run

\* A run as run_smoke or run_cell sets it up: a fresh book, the agents, the
\* flags, and the interval index t; raised once an exception ended the run.
Runs ==
    {[fn |-> "run_smoke", agents |-> smoke_agents(n),
      instrument |-> instrument, mechanism |-> "cda", t |-> 0,
      raised |-> FALSE] :
        n \in 1..MaxAgents, instrument \in BOOLEAN}
    \cup
    {[fn |-> "run_cell", agents |-> cell_agents(agent, n),
      instrument |-> instrument, mechanism |-> mechanism, t |-> 0,
      raised |-> FALSE] :
        agent \in RunAgents, n \in 1..MaxAgents,
        instrument \in BOOLEAN, mechanism \in {"cda", "call"}}

InitRun ==
    /\ bids = <<>>
    /\ asks = <<>>
    /\ id_counter = 0
    /\ arrival_counter = 0
    /\ trades = <<>>
    /\ replay = NoReplay
    /\ learner = LearnerNew
    /\ run \in {Some(r) : r \in Runs}
    /\ last = [op |-> "init", raised |-> FALSE, ret |-> TRUE, repriced |-> FALSE]

\* The agents of the run with the quotes they make in this interval.
Teams(agents) ==
    {[k \in 1..Len(agents) |-> Member(agents[k], Some(quotes[k]))] :
        quotes \in [1..Len(agents) -> Quotes]}

\* One pass of the loop `for t in range(intervals)`.
RunInterval(fn) ==
    /\ run # None
    /\ run[1].fn = fn
    /\ ~run[1].raised
    /\ run[1].t < MaxIntervals
    /\ \E team \in Teams(run[1].agents) :
          \E r \in {IF fn = "run_smoke"
                    THEN run_smoke_interval(OB, team, run[1].instrument)
                    ELSE run_cell_interval(OB, team, run[1].instrument,
                                           run[1].mechanism, None)} :
              /\ SetBook(r.ob)
              /\ run' = Some([run[1] EXCEPT !.t = @ + 1,
                                            !.raised = r.raised])
              /\ last' = [op |-> fn, raised |-> r.raised, ret |-> ~r.raised,
                          repriced |-> FALSE,
                          decide_raised |-> r.decide_raised,
                          calls |-> r.calls,
                          log_matches |-> r.logged = r.acted]
    /\ UNCHANGED <<replay, learner>>

RunSmoke == RunInterval("run_smoke")

RunCell == RunInterval("run_cell")

NextRun == RunSmoke \/ RunCell

SpecRun == InitRun /\ [][NextRun]_vars

----------------------------------------------------------------------------
(* One agent's turn in step_interval (market/clearing.py, lines 67-151) *)

InfoSets == {"book", "ticker"}

\* The snapshot built for the agent: the whole book, or with info_set
\* 'ticker' only the first order of each side (`bids0[:1]`, `asks0[:1]`).
info_snapshot(ob, info_set) ==
    IF info_set = "ticker"
    THEN <<SubSeq(ob.bids, 1, Min(1, Len(ob.bids))),
           SubSeq(ob.asks, 1, Min(1, Len(ob.asks)))>>
    ELSE snapshot(ob)

\* What the loop body does with the action decide returned: the submit of
\* the accept or of the agent's make_quote, or nothing.
agent_turn(ob, act, quote) ==
    cda_loop(ob, ob, <<[act |-> act, quote |-> quote]>>, 1, <<>>)

\* One pass of `for a in agents` for an agent that keeps no state.
AgentTurn ==
    /\ id_counter < MaxOrders
    /\ \E agent \in Agents \ {Agent("NoRegretLearner", "", 0, 0)},
          quote \in Opt(Quotes), info_set \in InfoSets :
          \E d \in {decide(agent, quote, info_snapshot(OB, info_set))} :
              \E l \in {IF d.raised THEN [ob |-> OB, raised |-> TRUE]
                        ELSE agent_turn(OB, d.act[1], quote)} :
                  /\ SetBook(l.ob)
                  /\ last' = [op |-> "agent_turn", raised |-> l.raised,
                              ret |-> ~l.raised, repriced |-> FALSE,
                              agent |-> agent, quote |-> quote,
                              info_set |-> info_set, act |-> d.act]
    /\ UNCHANGED <<replay, learner, run>>

\* One pass of the loop for a NoRegretLearner.
LearnerTurn ==
    /\ id_counter < MaxOrders
    /\ learner.decided < MaxDecides
    /\ \E quote \in Opt(Quotes), info_set \in InfoSets :
          \E d \in learner_decide(learner, quote,
                                  info_snapshot(OB, info_set)) :
              \E l \in {IF d.raised THEN [ob |-> OB, raised |-> TRUE]
                        ELSE agent_turn(OB, d.act[1], quote)} :
                  /\ SetBook(l.ob)
                  /\ learner' = d.learner
                  /\ last' = [op |-> "agent_turn", raised |-> l.raised,
                              ret |-> ~l.raised, repriced |-> FALSE,
                              agent |-> Agent("NoRegretLearner", "", 0, 0),
                              quote |-> quote, info_set |-> info_set,
                              act |-> d.act]
    /\ UNCHANGED <<replay, run>>

\* The turns of an interval, and the clear_trades that ends it.
NextTurn == AgentTurn \/ LearnerTurn \/ ClearTrades

SpecTurn == Init /\ [][NextTurn]_vars

----------------------------------------------------------------------------
(* Helpers of the properties *)

Range(s) == {s[i] : i \in 1..Len(s)}

Resting == Range(bids) \cup Range(asks)

ValidPrices == {p \in RawPrices : p >= 0}

PositiveQtys == {q \in Qtys : q > 0}

NoCross(ob) ==
    (best_bid(ob) # None /\ best_ask(ob) # None)
        => best_bid(ob)[1] < best_ask(ob)[1]

\* Quantity resting under an order id in a book.
RestingQty(ob, id) ==
    LET ib == index_of(ob.bids, id)
        ia == index_of(ob.asks, id)
    IN  IF ib > 0 THEN ob.bids[ib].qty_kwh
        ELSE IF ia > 0 THEN ob.asks[ia].qty_kwh ELSE 0

\* The trades a step appended to the log.
NewTrades ==
    IF Len(trades') > Len(trades) /\ SubSeq(trades', 1, Len(trades)) = trades
    THEN SubSeq(trades', Len(trades) + 1, Len(trades'))
    ELSE <<>>

----------------------------------------------------------------------------
(* C1 - C10 *)

\* C1: after any sequence of submit, cancel and modify calls, when both
\* best_bid() and best_ask() are present, best_bid() < best_ask().
C1_NoCross == NoCross(OB)

C1_Witness == bids # <<>> /\ asks # <<>> /\ trades # <<>>

\* C2: every trade of a submit is priced at the price of the order that was
\* resting on the opposite side, carries that order's id as maker_order_id and
\* the incoming order's id as taker_order_id.
C2_MakerPrice ==
    \A agent \in AgentIds, side \in Sides, price \in ValidPrices,
       qty \in PositiveQtys :
        LET r == submit(OB, agent, side, price, qty)
            opp == IF side = "buy" THEN asks ELSE bids
        IN  \A k \in 1..Len(r.trades) :
                /\ \E i \in 1..Len(opp) :
                      /\ opp[i].order_id = r.trades[k].maker_order_id
                      /\ opp[i].price_cperkwh = r.trades[k].price_cperkwh
                /\ r.trades[k].taker_order_id = r.order_id
                /\ r.order_id = id_counter + 1
                /\ \A o \in Resting : o.order_id # r.order_id

\* A buy quantized to 30 was filled in part at a resting ask's 10 and rests.
C2_Witness ==
    /\ last.op = "submit"
    /\ \E k \in 1..Len(trades), i \in 1..Len(bids) :
          /\ trades[k].price_cperkwh = 10
          /\ bids[i].order_id = trades[k].taker_order_id
          /\ bids[i].price_cperkwh = 30

\* C3: of two resting orders at one price, the one that arrived first is
\* filled completely before any quantity of the later one trades.
C3_Fifo ==
    [][\A book \in {bids, asks} : \A i, j \in 1..Len(book) :
          (/\ book[i].price_cperkwh = book[j].price_cperkwh
           /\ book[i].arrival_seq < book[j].arrival_seq
           /\ \E k \in 1..Len(NewTrades) :
                 NewTrades[k].maker_order_id = book[j].order_id)
          => /\ \A o \in Range(bids') \cup Range(asks') :
                   o.order_id # book[i].order_id
             /\ \A k \in 1..Len(NewTrades) :
                   NewTrades[k].maker_order_id = book[j].order_id
                   => \E m \in 1..(k - 1) :
                         /\ NewTrades[m].maker_order_id = book[i].order_id
                         /\ NewTrades[m].qty_kwh = book[i].qty_kwh]_vars

\* Two makers of one price were consumed by one taker, the older first.
C3_Witness ==
    \E k \in 1..(Len(trades) - 1) :
        /\ trades[k].taker_order_id = trades[k + 1].taker_order_id
        /\ trades[k].price_cperkwh = trades[k + 1].price_cperkwh
        /\ trades[k].maker_order_id < trades[k + 1].maker_order_id

\* The orders of one side among those the driver has submitted.
Submitted(side) == SelectSeq(replay.done, LAMBDA o : o.side = side)

\* C4: with submits only, on each side the quantity submitted equals the
\* quantity traded plus the quantity resting, so the traded total is at most
\* min(buy quantity submitted, sell quantity submitted).
C4_Conservation ==
    /\ SumQty(Submitted("buy")) = SumQty(trades) + SumQty(bids)
    /\ SumQty(Submitted("sell")) = SumQty(trades) + SumQty(asks)
    /\ SumQty(trades) <= Min(SumQty(Submitted("buy")), SumQty(Submitted("sell")))

\* Three orders went in, some quantity traded and some rests on each side.
C4_Witness ==
    /\ Len(replay.done) >= 3
    /\ trades # <<>>
    /\ bids # <<>>
    /\ asks # <<>>

\* C5: submit with quantity <= 0 or price < 0 raises, and the failed call
\* leaves bids, asks, both counters and the trade log as they were.
C5_RejectedSubmit ==
    /\ [](\A agent \in AgentIds, side \in Sides, price \in RawPrices,
             qty \in Qtys :
             (qty <= 0 \/ price < 0) => submit(OB, agent, side, price, qty).raised)
    /\ [][(last'.op = "submit" /\ last'.raised)
            => UNCHANGED <<bids, asks, id_counter, arrival_counter, trades>>]_vars

C5_Witness ==
    /\ last.op = "submit"
    /\ last.raised
    /\ id_counter > 0
    /\ Resting # {}
    /\ trades # <<>>

\* C6: writing to an order of the lists snapshot() returned, or to the
\* lists themselves, leaves the book's resting orders as they were.
C6_SnapshotIndependent ==
    [][(last'.op \in {"snapshot_order_write", "snapshot_list_write"})
          => UNCHANGED <<bids, asks>>]_vars

\* C7: the planner bound of a set of orders is at least the realized quote
\* welfare, compute_quote_welfare of the trades the live book made of the
\* same orders in any arrival order.
C7_BoundDominates ==
    LET b == planner_bound_quote_welfare(Submitted("buy"), Submitted("sell"), None)
        r == compute_quote_welfare(trades)
    IN  /\ ~r.raised
        /\ b.bound >= r.w

C9_ModifyPrice ==
    \A o \in Resting, np \in ValidPrices, nq \in Opt(PositiveQtys) :
        LET r == modify(OB, o.order_id, nq, Some(np))
            c == cancel(OB, o.order_id)
            q == IF nq = None THEN o.qty_kwh ELSE nq[1]
            newId == id_counter + 1
            same == IF o.side = "buy" THEN r.ob.bids ELSE r.ob.asks
            nt == SubSeq(r.ob.trades, Len(trades) + 1, Len(r.ob.trades))
        IN  /\ ~r.raised /\ r.ret
            /\ r.ob = submit(c.ob, o.agent_id, o.side, np, q).ob
            /\ \A x \in Range(r.ob.bids) \cup Range(r.ob.asks) :
                  x.order_id # o.order_id
            /\ \A i \in 1..Len(same) : same[i].order_id = newId =>
                  /\ same[i].price_cperkwh = normalize_price(np)
                  /\ same[i].arrival_seq = arrival_counter + 1
                  /\ \A x \in Range(r.ob.bids) \cup Range(r.ob.asks) :
                        x.order_id # newId => x.arrival_seq < same[i].arrival_seq
                  /\ \A j \in 1..Len(same) :
                        (j # i /\ same[j].price_cperkwh = same[i].price_cperkwh)
                            => j < i
            /\ SubSeq(r.ob.trades, 1, Len(trades)) = trades
            /\ \A k \in 1..Len(nt) : nt[k].taker_order_id = newId
            /\ SumQty(nt) + RestingQty(r.ob, newId) = q
            /\ NoCross(r.ob)

\* A re-priced order rests behind an older order of its new price.
C9_Witness ==
    /\ last.op = "modify"
    /\ last.repriced
    /\ ~last.raised
    /\ \E book \in {bids, asks} : \E i \in 2..Len(book) :
          /\ book[i].order_id = id_counter
          /\ book[i - 1].price_cperkwh = book[i].price_cperkwh

\* C10: modify with new_qty_kwh <= 0 returns True without raising and removes
\* exactly the targeted order, with or without a new price.
C10_ModifyNonPositiveQty ==
    \A o \in Resting, nq \in {q \in Qtys : q <= 0}, np \in Opt(ValidPrices) :
        LET r == modify(OB, o.order_id, Some(nq), np)
        IN  /\ ~r.raised
            /\ r.ret
            /\ r.ob = cancel(OB, o.order_id).ob

----------------------------------------------------------------------------
(* C11 - C20 *)

\* Order ids a caller may name: never issued (0 and those above the counter),
\* resting, cancelled or filled.
SomeIds == 0..(MaxOrders + 1)

RestingIds == {o.order_id : o \in Resting}

\* C11: cancel or modify with an order id that is not resting returns False
\* without raising and leaves bids, asks, counters and trade log unchanged;
\* cancel of a resting id returns True, removes exactly that one order and
\* leaves the trade log (and the counters) unchanged.
C11_NotFound ==
    /\ \A id \in SomeIds \ RestingIds :
          /\ cancel(OB, id) = [ob |-> OB, ret |-> FALSE]
          /\ \A nq \in Opt(Qtys), np \in Opt(RawPrices) :
                LET r == modify(OB, id, nq, np)
                IN  ~r.raised /\ ~r.ret /\ r.ob = OB
    /\ \A o \in Resting :
          LET r == cancel(OB, o.order_id)
              mine == IF o.side = "buy" THEN bids ELSE asks
              mine2 == IF o.side = "buy" THEN r.ob.bids ELSE r.ob.asks
          IN  /\ r.ret
              /\ r.ob.trades = trades
              /\ r.ob.id_counter = id_counter
              /\ r.ob.arrival_counter = arrival_counter
              /\ IF o.side = "buy" THEN r.ob.asks = asks ELSE r.ob.bids = bids
              /\ Len(mine2) = Len(mine) - 1
              /\ mine2 = SelectSeq(mine, LAMBDA x : x # o)

\* A cancel of an id that was issued and is gone (cancelled or filled) found
\* nothing, and a cancel of the first of two orders of a side is possible.
C11_Witness ==
    /\ last.op = "cancel"
    /\ ~last.ret
    /\ id_counter = MaxOrders
    /\ trades # <<>>
    /\ \E book \in {bids, asks} : Len(book) = 2

\* C12: a quantity-only modify (new quantity > 0, no new price) changes only
\* that order's quantity: its order_id, price, arrival sequence and position
\* in the book are unchanged, so it is still matched before every later
\* order of its price.
C12_ModifyQty ==
    \A o \in Resting, nq \in PositiveQtys :
        LET r == modify(OB, o.order_id, Some(nq), None)
            mine == IF o.side = "buy" THEN bids ELSE asks
            mine2 == IF o.side = "buy" THEN r.ob.bids ELSE r.ob.asks
            i == index_of(mine, o.order_id)
        IN  /\ ~r.raised /\ r.ret /\ ~r.repriced
            /\ r.ob.id_counter = id_counter
            /\ r.ob.arrival_counter = arrival_counter
            /\ r.ob.trades = trades
            /\ IF o.side = "buy" THEN r.ob.asks = asks ELSE r.ob.bids = bids
            /\ Len(mine2) = Len(mine)
            /\ \A k \in 1..Len(mine) :
                  mine2[k] = IF k = i THEN [o EXCEPT !.qty_kwh = nq] ELSE mine[k]
            \* a taker that reaches a later order of the price has first
            \* taken all of the modified order's new quantity
            /\ \A x \in Range(mine), p \in ValidPrices, q \in PositiveQtys :
                  (x.price_cperkwh = o.price_cperkwh
                       /\ x.arrival_seq > o.arrival_seq)
                  => LET t == submit(r.ob, "a1",
                                     IF o.side = "buy" THEN "sell" ELSE "buy",
                                     p, q).trades
                     IN  \A k \in 1..Len(t) :
                            t[k].maker_order_id = x.order_id
                            => \E m \in 1..(k - 1) :
                                  /\ t[m].maker_order_id = o.order_id
                                  /\ t[m].qty_kwh = nq

\* Both orders ever issued rest at one price and nothing traded, so the
\* modify that returned True without re-pricing changed the quantity of one
\* of them in place: the older one is still ahead.
C12_Witness ==
    /\ last.op = "modify"
    /\ last.ret
    /\ ~last.repriced
    /\ id_counter = 2
    /\ trades = <<>>
    /\ \E book \in {bids, asks} :
          /\ Len(book) = 2
          /\ book[1].price_cperkwh = book[2].price_cperkwh
          /\ book[1].order_id = 1
          /\ book[1].qty_kwh = 2
          /\ book[2].qty_kwh = 1

\* C13: submit snaps the price to the nearest multiple of the tick before any
\* matching or resting, and every crossing and ordering decision uses the
\* quantized price: a submit at a price acts as a submit at its tick; a sell
\* and a buy of one tick trade with each other at that tick; same-side orders
\* of one tick are ranked by arrival only.
C13_TickRounding ==
    \A side \in Sides, p1 \in ValidPrices, q1 \in PositiveQtys :
        LET t1 == normalize_price(p1)
            r1 == submit(OB, "a1", side, p1, q1)
            mine1 == IF side = "buy" THEN r1.ob.bids ELSE r1.ob.asks
            other == IF side = "buy" THEN "sell" ELSE "buy"
        IN  /\ t1 % TickCents = 0
            /\ 2 * (t1 - p1) <= TickCents
            /\ 2 * (p1 - t1) <= TickCents
            /\ r1 = submit(OB, "a1", side, t1, q1)
            /\ \A o \in Range(mine1) :
                  o.order_id = r1.order_id => o.price_cperkwh = t1
            /\ \A p2 \in ValidPrices, q2 \in PositiveQtys :
                  (normalize_price(p2) = t1 /\ r1.trades = <<>>) =>
                     LET same == submit(r1.ob, "a1", side, p2, q2)
                         mine2 == IF side = "buy" THEN same.ob.bids
                                  ELSE same.ob.asks
                         opp == submit(r1.ob, "a1", other, p2, q2)
                     IN  /\ same.trades = <<>>
                         /\ index_of(mine2, r1.order_id)
                                < index_of(mine2, same.order_id)
                         /\ opp.trades # <<>>
                         /\ \A k \in 1..Len(opp.trades) :
                               IF side = "buy"
                               THEN opp.trades[k].price_cperkwh >= t1
                               ELSE opp.trades[k].price_cperkwh <= t1
                         /\ mine1[1].order_id = r1.order_id =>
                               /\ opp.trades[1].maker_order_id = r1.order_id
                               /\ opp.trades[1].price_cperkwh = t1
                               /\ opp.trades[1].qty_kwh = Min(q1, q2)

\* No order is given at 20: a sell that rested at 20 and the buy that took a
\* part of it and rests at 20 itself were both given off the tick grid, and
\* traded with each other at 20.
C13_Witness ==
    /\ last.op = "submit"
    /\ \E k \in 1..Len(trades), i \in 1..Len(bids) :
          /\ trades[k].price_cperkwh = 20
          /\ bids[i].order_id = trades[k].taker_order_id
          /\ bids[i].price_cperkwh = 20
    /\ 20 \notin RawPrices

\* The moves of two agents in a row.  An agent's turn starts from the book the
\* agents before it have left, which is also the book an interval made of
\* those agents ends with: so the first of the two stands for every agent of
\* an interval that has a successor.
CdaPairs == [1..2 -> CdaMoves]

\* C14: in step_interval the agents act one after another: the first agent is
\* given the book of the interval's start, and each later agent the book as
\* the previous agent's submission left it.  An order the previous agent
\* posted that did not trade is resting in it, unchanged otherwise; when the
\* previous agent's order traded, the quantity it took is gone from the
\* opposite side, and a resting order it consumed entirely is absent.
C14_Sequential ==
    \A moves \in CdaPairs :
        LET r == step_interval(OB, moves)
        IN  /\ ~r.raised
            /\ Len(r.seen) = Len(moves)
            /\ r.seen[1] = <<bids, asks>>
            /\ \A j \in 1..(Len(moves) - 1) :
                  LET q == cda_order(moves[j])
                      buy == q[1].side = "buy"
                      price == normalize_price(q[1].price)
                      same == IF buy THEN r.seen[j][1] ELSE r.seen[j][2]
                      opp == IF buy THEN r.seen[j][2] ELSE r.seen[j][1]
                      same2 == IF buy THEN r.seen[j + 1][1] ELSE r.seen[j + 1][2]
                      opp2 == IF buy THEN r.seen[j + 1][2] ELSE r.seen[j + 1][1]
                      cross == /\ opp # <<>>
                               /\ IF buy THEN price >= opp[1].price_cperkwh
                                  ELSE price <= opp[1].price_cperkwh
                  IN  IF q = None THEN r.seen[j + 1] = r.seen[j]
                      ELSE IF ~cross
                      THEN /\ opp2 = opp
                           /\ \E i \in 1..Len(same2) :
                                 /\ same2[i].agent_id = AgentNames[j]
                                 /\ same2[i].price_cperkwh = price
                                 /\ same2[i].qty_kwh = q[1].qty_kwh
                                 /\ remove_at(same2, i) = same
                      ELSE /\ SumQty(opp2) < SumQty(opp)
                           /\ SumQty(opp) - SumQty(opp2)
                                  = q[1].qty_kwh - (SumQty(same2) - SumQty(same))
                           /\ opp[1].qty_kwh <= q[1].qty_kwh
                                 => \A o \in Range(opp2) :
                                       o.order_id # opp[1].order_id

\* The two orders ever submitted came from the two agents of one interval;
\* the first agent's order is gone and the second agent's rests in part: the
\* second agent's order met the first agent's in the book.
C14_Witness ==
    /\ last.op = "step_interval"
    /\ ~last.raised
    /\ last.submitted = 2
    /\ id_counter = 2
    /\ \E o \in Resting : o.agent_id = "a2" /\ o.qty_kwh = 1
    /\ \A o \in Resting : o.agent_id # "a1"

\* The moves of two agents of one call auction.
CallPairs == [1..2 -> AgentMoves]

\* C15: in step_interval_call every agent's decide is given the book as it
\* was at the start of the interval, whatever the agents before it posted.
C15_Simultaneous ==
    \A moves \in CallPairs :
        LET r == step_interval_call(OB, moves, None)
        IN  /\ Len(r.seen) = 2
            /\ \A k \in 1..2 : r.seen[k] = <<bids, asks>>

\* Two agents posted in one call auction on an empty book and both orders
\* rest: the second decided after the first had posted.
C15_Witness ==
    /\ last.op = "step_interval_call"
    /\ ~last.raised
    /\ last.posted = 2
    /\ Len(bids) + Len(asks) = 2
    /\ \E o \in Resting : o.agent_id = "a1" /\ o.arrival_seq = 1
    /\ \E o \in Resting : o.agent_id = "a2" /\ o.arrival_seq = 2

\* The best bid and ask of a book crossing: the batch matcher has a pair.
Crossed(b, a) ==
    b # <<>> /\ a # <<>> /\ b[1].price_cperkwh >= a[1].price_cperkwh

\* C16: the batch matcher pairs the best remaining bid with the best
\* remaining ask while bid price >= ask price, trading min(remaining bid
\* quantity, remaining ask quantity) each time, every trade at the ask's
\* price: of a book whose best bid and ask cross it returns trades, the
\* first between these two for the smaller of their quantities at the
\* ask's price, and what it leaves does not cross.
C16_BatchPairs ==
    LET m == batch_match(bids, asks, None)
    IN  /\ ~m.raised
        /\ Crossed(bids, asks) =>
              /\ m.trades # <<>>
              /\ m.trades[1].price_cperkwh = asks[1].price_cperkwh
              /\ m.trades[1].qty_kwh = Min(bids[1].qty_kwh, asks[1].qty_kwh)
              /\ m.trades[1].buy_agent = bids[1].agent_id
              /\ m.trades[1].sell_agent = asks[1].agent_id
        /\ ~Crossed(m.residual_bids, m.residual_asks)

C19_InfeasibleAccept ==
    \A mv \in InfeasibleMoves :
        LET plain == [act |-> Act("post", None, None, None), quote |-> mv.quote]
        IN  /\ step_interval(OB, <<mv>>) = step_interval(OB, <<plain>>)
            /\ step_interval_call(OB, <<mv>>, None)
                   = step_interval_call(OB, <<plain>>, None)

\* C20: at every point the orders resting in a book have pairwise distinct
\* order_ids, so cancel(id) and modify(id) address at most one resting order.
C20_UniqueIds ==
    LET all == bids \o asks
    IN  \A i, j \in 1..Len(all) : all[i].order_id = all[j].order_id => i = j

----------------------------------------------------------------------------
(* C21 - C30 *)

\* The last step was a decide of an agent of this class and mode that had a
\* quote.
Decided(cls, mode) ==
    /\ last.op = "decide"
    /\ last.agent.cls = cls
    /\ last.agent.mode = mode
    /\ last.quote # None

\* The side of the book that decide was shown.
LastOpp == IF last.quote[1].side = "buy" THEN asks ELSE bids

\* An order crosses a quote: priced at or below a buyer's quote, at or above
\* a seller's.
CrossesQuote(o, q) ==
    IF q.side = "buy" THEN o.price_cperkwh <= q.price
    ELSE o.price_cperkwh >= q.price

\* C21: a Satisficer in band mode accepts the first order, in book order,
\* that crosses its quote and is priced within tau_percent of the quote
\* price, for min(desired quantity, the order's quantity) at the order's
\* price, with offers_seen the position of that order; when no order
\* qualifies it posts with offers_seen the depth of the opposite side.
C21_Band ==
    Decided("Satisficer", "band") =>
        LET q == last.quote[1]
            tau == last.agent.tau_percent
            Qualifies(i) ==
                /\ CrossesQuote(LastOpp[i], q)
                /\ Abs(LastOpp[i].price_cperkwh - q.price) * 100
                       <= tau * q.price
            hits == {i \in 1..Len(LastOpp) : Qualifies(i)}
        IN  /\ ~last.raised
            /\ IF hits = {}
               THEN last.act[1] = [ActionDict("post") EXCEPT
                                      !.offers_seen = Some(Len(LastOpp))]
               ELSE LET first == CHOOSE i \in hits : \A j \in hits : i <= j
                    IN  last.act[1] =
                            [ActionDict("accept") EXCEPT
                                !.order_id = Some(LastOpp[first].order_id),
                                !.qty_kwh = Some(Min(q.qty_kwh,
                                                     LastOpp[first].qty_kwh)),
                                !.price = Some(LastOpp[first].price_cperkwh),
                                !.side = Some(q.side),
                                !.offers_seen = Some(first)]

\* A band Satisficer passed over a crossing order outside its band, accepted
\* the next one and left the rest of the side unread.
C21_Witness ==
    /\ Decided("Satisficer", "band")
    /\ last.act[1].type = "accept"
    /\ last.act[1].offers_seen = Some(2)
    /\ Len(LastOpp) = 3
    /\ CrossesQuote(LastOpp[1], last.quote[1])

\* C22: a Satisficer in k_search mode reads only the first K orders of the
\* opposite side; it reports offers_seen = min(K, depth); when none of those
\* orders crosses its quote it posts, otherwise it accepts one of them that
\* crosses and that no crossing order among them beats on price, for
\* min(desired quantity, that order's quantity) at that order's price.
C22_KSearch ==
    Decided("Satisficer", "k_search") =>
        LET q == last.quote[1]
            seen == Min(last.agent.k_max, Len(LastOpp))
            cross == {i \in 1..seen : CrossesQuote(LastOpp[i], q)}
            Better(i, j) ==
                IF q.side = "buy"
                THEN LastOpp[i].price_cperkwh < LastOpp[j].price_cperkwh
                ELSE LastOpp[i].price_cperkwh > LastOpp[j].price_cperkwh
        IN  /\ ~last.raised
            /\ IF cross = {}
               THEN last.act[1] = [ActionDict("post") EXCEPT
                                      !.offers_seen = Some(seen)]
               ELSE \E i \in cross :
                      /\ \A j \in cross : ~Better(j, i)
                      /\ last.act[1] =
                            [ActionDict("accept") EXCEPT
                                !.order_id = Some(LastOpp[i].order_id),
                                !.qty_kwh = Some(Min(q.qty_kwh,
                                                     LastOpp[i].qty_kwh)),
                                !.price = Some(LastOpp[i].price_cperkwh),
                                !.side = Some(q.side),
                                !.offers_seen = Some(seen)]

\* A k_search Satisficer with K = 1 accepted the first of three orders though
\* the second crossed its quote as well.
C22_Witness ==
    /\ Decided("Satisficer", "k_search")
    /\ last.agent.k_max = 1
    /\ Len(LastOpp) = 3
    /\ last.act[1].type = "accept"
    /\ last.act[1].offers_seen = Some(1)
    /\ CrossesQuote(LastOpp[2], last.quote[1])

\* C23: an Optimizer in single mode reports solver_calls equal to the number
\* of orders on the opposite side; when none of them crosses its quote it
\* posts, otherwise it accepts a crossing order that no other crossing order
\* beats on price, for min(desired quantity, that order's quantity) at that
\* order's price.
C23_OptimizerSingle ==
    Decided("Optimizer", "single") =>
        LET q == last.quote[1]
            cross == {i \in 1..Len(LastOpp) : CrossesQuote(LastOpp[i], q)}
            Better(i, j) ==
                IF q.side = "buy"
                THEN LastOpp[i].price_cperkwh < LastOpp[j].price_cperkwh
                ELSE LastOpp[i].price_cperkwh > LastOpp[j].price_cperkwh
        IN  /\ ~last.raised
            /\ IF cross = {}
               THEN last.act[1] = [ActionDict("post") EXCEPT
                                      !.solver_calls = Some(Len(LastOpp))]
               ELSE \E i \in cross :
                      /\ \A j \in cross : ~Better(j, i)
                      /\ last.act[1] =
                            [ActionDict("accept") EXCEPT
                                !.order_id = Some(LastOpp[i].order_id),
                                !.qty_kwh = Some(Min(q.qty_kwh,
                                                     LastOpp[i].qty_kwh)),
                                !.price = Some(LastOpp[i].price_cperkwh),
                                !.side = Some(q.side),
                                !.solver_calls = Some(Len(LastOpp))]

\* The k_search Satisficers and the single-mode Optimizer given the same
\* quote and the same snapshot of the book.
KSearchAct(quote, k) ==
    satisficer_decide(Agent("Satisficer", "k_search", 5, k), Some(quote),
                      snapshot(OB))

SingleAct(quote) ==
    optimizer_decide(Agent("Optimizer", "single", 0, 0), Some(quote),
                     snapshot(OB))

Accepts(r) == ~r.raised /\ r.act[1].type = "accept"

\* C24: for the same quote and the same snapshot, whenever a k_search
\* Satisficer (any K) and a single-mode Optimizer both accept, the
\* Optimizer's price is at least as good: no higher for a buyer, no lower for
\* a seller.
C24_Dominance ==
    \A quote \in Quotes, k \in 1..(MaxOrders + 1) :
        (Accepts(KSearchAct(quote, k)) /\ Accepts(SingleAct(quote))) =>
            LET ps == KSearchAct(quote, k).act[1].price[1]
                po == SingleAct(quote).act[1].price[1]
            IN  IF quote.side = "buy" THEN po <= ps ELSE po >= ps

\* An Optimizer accepted with two crossing orders of different prices to
\* choose from, and a k_search Satisficer with K = 1 accepts on the same quote
\* and book.
C24_Witness ==
    /\ Decided("Optimizer", "single")
    /\ last.act[1].type = "accept"
    /\ Accepts(KSearchAct(last.quote[1], 1))
    /\ Len(LastOpp) >= 2
    /\ CrossesQuote(LastOpp[2], last.quote[1])
    /\ LastOpp[1].price_cperkwh # LastOpp[2].price_cperkwh

\* The total quantity of the orders among the first n of a side that cross a
\* quote.
RECURSIVE CrossingQty(_, _, _)
CrossingQty(opp, n, q) ==
    IF n = 0 THEN 0
    ELSE CrossingQty(opp, n - 1, q)
            + (IF CrossesQuote(opp[n], q) THEN opp[n].qty_kwh ELSE 0)

\* C25: an Optimizer in greedy mode and a Satisficer in k_greedy mode post
\* when no order of their window crosses the quote (the window is the whole
\* opposite side for the Optimizer, its first K orders for k_greedy), and
\* otherwise accept, at their own quote price, min(desired quantity, total
\* quantity of the crossing orders of the window), which is positive and at
\* most the desired quantity.
C25_MultiFill ==
    (Decided("Optimizer", "greedy") \/ Decided("Satisficer", "k_greedy")) =>
        LET q == last.quote[1]
            window == IF last.agent.cls = "Optimizer" THEN Len(LastOpp)
                      ELSE Min(last.agent.k_max, Len(LastOpp))
            total == CrossingQty(LastOpp, window, q)
        IN  /\ ~last.raised
            /\ IF \A i \in 1..window : ~CrossesQuote(LastOpp[i], q)
               THEN last.act[1].type = "post"
               ELSE /\ last.act[1].type = "accept"
                    /\ last.act[1].price = Some(q.price)
                    /\ last.act[1].side = Some(q.side)
                    /\ last.act[1].qty_kwh = Some(Min(q.qty_kwh, total))
                    /\ last.act[1].qty_kwh[1] > 0
                    /\ last.act[1].qty_kwh[1] <= q.qty_kwh

RECURSIVE SumSeq(_)
SumSeq(s) == IF s = <<>> THEN 0 ELSE Head(s) + SumSeq(Tail(s))

\* The learner's counts and values, zero while they are not yet set.
ArmCounts(st) ==
    IF st.counts = None THEN [i \in 1..Len(DefaultArms) |-> 0]
    ELSE st.counts[1]

ArmValues(st) ==
    IF st.values = None
    THEN [i \in 1..Len(DefaultArms) |-> [num |-> 0, den |-> 1]]
    ELSE st.values[1]

\* The step is a decide of the learner that had the quote q.
LearnerDecided(q) ==
    /\ last'.op = "decide"
    /\ last'.agent.cls = "NoRegretLearner"
    /\ last'.quote = Some(q)
    /\ learner'.decided = learner.decided + 1

\* C26: a decide of the NoRegretLearner that has a quote selects one arm,
\* adds one to that arm's count only and moves that arm's value by
\* (reward - value) / count, the reward being 1 when an opposite-side order
\* crosses the quote price shifted by the arm's offset and 0 otherwise; so
\* the counts sum to the number of decides that had a quote and every value
\* lies in [0, 1].
C26_ArmUpdate ==
    /\ [][\A q \in Quotes : LearnerDecided(q) =>
            \E idx \in 1..Len(DefaultArms) :
                LET offset == DefaultArms[idx]
                    q_price == Max(0, q.price + (IF q.side = "buy" THEN offset
                                                 ELSE -offset))
                    opp == IF q.side = "buy" THEN asks ELSE bids
                    reward ==
                        IF \E i \in 1..Len(opp) :
                              CrossesQuote(opp[i], [q EXCEPT !.price = q_price])
                        THEN 1 ELSE 0
                    n == ArmCounts(learner)[idx] + 1
                    v == ArmValues(learner)[idx]
                    w == ArmValues(learner')[idx]
                IN  /\ ArmCounts(learner')
                          = [ArmCounts(learner) EXCEPT ![idx] = n]
                    /\ w.num * v.den * n
                          = w.den * (v.num * (n - 1) + reward * v.den)
                    /\ \A j \in 1..Len(DefaultArms) \ {idx} :
                          ArmValues(learner')[j] = ArmValues(learner)[j]]_vars
    /\ [](/\ SumSeq(ArmCounts(learner)) = learner.decided
          /\ \A i \in 1..Len(DefaultArms) :
                /\ 0 <= ArmValues(learner)[i].num
                /\ ArmValues(learner)[i].num <= ArmValues(learner)[i].den)

\* C27: in one simulated interval each agent's decide is called exactly
\* once, in agent-list order, and the action it returned is the one acted
\* on; with decision instrumentation the logged action is that same action
\* (no second decide call).
C27_DecideOnce ==
    (last.op \in {"run_smoke", "run_cell"} /\ ~last.decide_raised)
        => /\ last.calls = [k \in 1..Len(run[1].agents) |-> k]
           /\ run[1].instrument => last.log_matches

\* C28: no agent mutates the order book: a decide of any agent type,
\* returning or raising, leaves every resting order and its position, the
\* snapshot lists, the counters and the trade log as they were.
C28_NoMutation ==
    [][last'.op = "decide"
          => /\ bids' = bids
             /\ asks' = asks
             /\ id_counter' = id_counter
             /\ arrival_counter' = arrival_counter
             /\ trades' = trades]_vars

C28_Witness ==
    /\ last.op = "decide"
    /\ ~last.raised
    /\ last.act[1].type = "accept"
    /\ last.act[1].qty_kwh # None
    /\ \E i \in 1..Len(bids \o asks) :
          last.act[1].order_id = Some((bids \o asks)[i].order_id)

\* C29: clear_trades returns, in execution order, exactly the trades logged
\* since the previous clear_trades call and resets the log; submit, modify
\* and cancel only append to the log, so every trade is returned by exactly
\* one call, and a call right after another returns the empty list.
C29_ClearTrades ==
    [][/\ last'.op = "clear_trades"
            => /\ last'.returned = trades
               /\ trades' = <<>>
       /\ last'.op # "clear_trades"
            => /\ Len(trades') >= Len(trades)
               /\ SubSeq(trades', 1, Len(trades)) = trades
       /\ (last.op = "clear_trades" /\ last'.op = "clear_trades")
            => last'.returned = <<>>]_vars

C29_Witness ==
    /\ last.op = "clear_trades"
    /\ Len(last.returned) >= 2
    /\ trades = <<>>

\* C30: decide of every agent type returns an action of type none, post or
\* accept and does not raise, for every snapshot of valid resting orders,
\* orders with order_id 0 (call-auction residuals) included.
C30_DecideTotal ==
    last.op = "decide"
        => /\ ~last.raised
           /\ last.act # None
           /\ last.act[1].type \in {"none", "post", "accept"}

----------------------------------------------------------------------------
(* C31 - C37 *)

\* An agent's turn in step_interval ended with the submit of the accept its
\* decide returned.
TurnAccepted ==
    /\ last'.op = "agent_turn"
    /\ ~last'.raised
    /\ last'.act[1].type = "accept"
    /\ get_or_zero(last'.act[1].qty_kwh) > 0

\* C31: in step_interval, when an agent's accept names a resting order by
\* order_id, the submission executes against exactly that order: one trade,
\* whose maker_order_id is the named order_id and whose price is the
\* action's price.
C31_NamedOrder ==
    [][(TurnAccepted /\ last'.act[1].order_id # None)
          => /\ Len(NewTrades) = 1
             /\ NewTrades[1].maker_order_id = last'.act[1].order_id[1]
             /\ NewTrades[1].price_cperkwh = last'.act[1].price[1]]_vars

\* C32: in step_interval, with either information set, every accept an
\* agent returns crosses at once and in full when submitted: the trades of
\* that submit total exactly the accepted quantity and nothing of the
\* accepting order is left resting.
C32_AcceptCrosses ==
    [][TurnAccepted
          => /\ id_counter' = id_counter + 1
             /\ SumQty(NewTrades) = last'.act[1].qty_kwh[1]
             /\ \A i \in 1..Len(NewTrades) :
                   NewTrades[i].taker_order_id = id_counter'
             /\ \A i \in 1..Len(bids' \o asks') :
                   (bids' \o asks')[i].order_id # id_counter']_vars

\* An accept of two units decided on the ticker or on the book and filled
\* by two makers.
C32_Witness ==
    /\ last.op = "agent_turn"
    /\ ~last.raised
    /\ last.act[1].type = "accept"
    /\ last.act[1].qty_kwh = Some(2)
    /\ Len(trades) >= 2
    /\ trades[Len(trades)].taker_order_id = id_counter
    /\ trades[Len(trades) - 1].taker_order_id = id_counter

\* C33: modify has no partial effect on failure: when a modify call raises,
\* the targeted order still rests with its order_id, price, quantity and
\* priority, and the rest of the book, the counters and the trade log are
\* unchanged.
C33_ModifyAtomic ==
    [][(last'.op = "modify" /\ last'.raised)
          => /\ bids' = bids
             /\ asks' = asks
             /\ id_counter' = id_counter
             /\ arrival_counter' = arrival_counter
             /\ trades' = trades]_vars

\* A step in which submit ran its matching loop: a submit call, or the
\* submit inside a price-changing modify.
Matched ==
    /\ last'.op \in {"submit", "modify"}
    /\ ~last'.raised
    /\ id_counter' = id_counter + 1

IdsOf(book) == {book[i].order_id : i \in 1..Len(book)}

\* The incoming order of the step is a buy: its first maker was an ask, or
\* it made no trade and rests among the bids.
TakerBuys ==
    \/ NewTrades # <<>> /\ NewTrades[1].maker_order_id \in IdsOf(asks)
    \/ NewTrades = <<>> /\ id_counter' \in IdsOf(bids')

\* C34: within one submit an incoming buy consumes the resting asks strictly
\* in book order (an incoming sell the bids): the makers' prices are
\* non-decreasing (non-increasing), every maker but possibly the last is
\* filled in full and removed, a partly filled maker stays at the head with
\* its reduced quantity, there are at most as many trades as there were
\* resting opposite orders, and the loop stops only when the incoming order
\* is filled, the opposite side is empty or its best price no longer crosses.
C34_MatchOrder ==
    [][Matched =>
          LET T == NewTrades
              n == Len(T)
              opp == IF TakerBuys THEN asks ELSE bids
              opp2 == IF TakerBuys THEN asks' ELSE bids'
              own2 == IF TakerBuys THEN bids' ELSE asks'
              partial == n > 0 /\ T[n].qty_kwh < opp[n].qty_kwh
              behind == SubSeq(opp, n + 1, Len(opp))
          IN  /\ n <= Len(opp)
              /\ \A i \in 1..n :
                    /\ T[i].maker_order_id = opp[i].order_id
                    /\ T[i].taker_order_id = id_counter'
                    /\ T[i].qty_kwh > 0
                    /\ T[i].qty_kwh <= opp[i].qty_kwh
              /\ \A i \in 1..(n - 1) :
                    /\ T[i].qty_kwh = opp[i].qty_kwh
                    /\ TakerBuys => T[i].price_cperkwh <= T[i + 1].price_cperkwh
                    /\ ~TakerBuys => T[i].price_cperkwh >= T[i + 1].price_cperkwh
              /\ opp2 = IF partial
                        THEN <<[opp[n] EXCEPT !.qty_kwh = @ - T[n].qty_kwh]>>
                                 \o behind
                        ELSE behind
              /\ \A i \in 1..Len(own2) :
                    own2[i].order_id = id_counter'
                        => /\ ~partial
                           /\ \/ opp2 = <<>>
                              \/ /\ TakerBuys
                                 /\ own2[i].price_cperkwh < opp2[1].price_cperkwh
                              \/ /\ ~TakerBuys
                                 /\ own2[i].price_cperkwh > opp2[1].price_cperkwh]_vars

\* A submit that swept one maker in full and left the next one partly
\* filled at the head of its side.
C34_Witness ==
    /\ last.op = "submit"
    /\ Len(trades) >= 2
    /\ trades[Len(trades)].taker_order_id = id_counter
    /\ trades[Len(trades) - 1].taker_order_id = id_counter
    /\ \/ /\ asks # <<>>
          /\ asks[1].order_id = trades[Len(trades)].maker_order_id
       \/ /\ bids # <<>>
          /\ bids[1].order_id = trades[Len(trades)].maker_order_id

\* C35: for the same order set and the same feeder limit the batch matcher
\* achieves the planner bound: the quote welfare of _batch_match's trades,
\* the sum of (bid price - ask price) x quantity, equals the bound of
\* planner_bound_quote_welfare, and the traded quantities are equal.
C35_BatchAchievesBound ==
    \A feeder_limit_kw \in Opt(FeederLimits) :
        LET m == batch_match(bids, asks, feeder_limit_kw)
            p == planner_bound_quote_welfare(bids, asks, feeder_limit_kw)
            w == compute_quote_welfare(m.trades)
        IN  /\ ~m.raised
            /\ ~w.raised
            /\ w.w = p.bound
            /\ SumQty(m.trades) = p.traded

\* A list of one side in the side's order: price descending for bids
\* (ascending for asks), arrival sequence ascending within a price.
InOrder(book, reverse) ==
    \A i \in 1..(Len(book) - 1) :
        \/ IF reverse THEN book[i].price_cperkwh > book[i + 1].price_cperkwh
           ELSE book[i].price_cperkwh < book[i + 1].price_cperkwh
        \/ /\ book[i].price_cperkwh = book[i + 1].price_cperkwh
           /\ book[i].arrival_seq < book[i + 1].arrival_seq

\* C36: after any sequence of submit, cancel and modify calls the bids are
\* ordered by (price descending, arrival sequence ascending) and the asks by
\* (price ascending, arrival sequence ascending), and the order ids and
\* arrival sequences that successive successful submits assign are strictly
\* increasing: each is above every one assigned before.
C36_Ordered ==
    /\ [](/\ InOrder(bids, TRUE)
          /\ InOrder(asks, FALSE)
          /\ \A o \in Resting :
                o.order_id <= id_counter /\ o.arrival_seq <= arrival_counter)
    /\ [][/\ id_counter' >= id_counter
          /\ arrival_counter' >= arrival_counter
          /\ (last'.op = "submit" /\ ~last'.raised)
                => /\ id_counter' > id_counter
                   /\ arrival_counter' > arrival_counter
                   /\ \A o \in Range(bids') \cup Range(asks') :
                         \/ o.order_id = id_counter'
                               /\ o.arrival_seq = arrival_counter'
                         \/ o.order_id <= id_counter
                               /\ o.arrival_seq <= arrival_counter]_vars

\* Three orders rest on one side, two at one price in arrival order behind
\* a better-priced later one.
C36_Witness ==
    \E book \in {bids, asks} :
        /\ Len(book) = 3
        /\ book[2].price_cperkwh = book[3].price_cperkwh
        /\ book[1].arrival_seq > book[2].arrival_seq
        /\ book[2].arrival_seq < book[3].arrival_seq

\* C37: every order resting in the book has quantity > 0 after any sequence
\* of submit, cancel and modify calls: an incoming order or a maker whose
\* remaining quantity reaches 0 is not in the book when the call returns,
\* and every recorded trade has quantity > 0.
C37_PositiveQty ==
    /\ \A o \in Resting : o.qty_kwh > 0
    /\ \A k \in 1..Len(trades) : trades[k].qty_kwh > 0

\* A submit whose last trade emptied both the incoming order and its maker:
\* neither rests.
C37_Witness ==
    /\ last.op = "submit"
    /\ trades # <<>>
    /\ trades[Len(trades)].taker_order_id = id_counter
    /\ \A o \in Resting :
          /\ o.order_id # id_counter
          /\ o.order_id # trades[Len(trades)].maker_order_id

====
